---- MODULE Spec2Model ----
(***************************************************************************)
(* Model of the auto_digest scoring engine (summarizer/scoring_system.py)  *)
(* and of its caller in summarizer/gpt_summarizer.py.                      *)
(*                                                                         *)
(* Numbers.  A score is a Python float; the model holds a score as a       *)
(* signed count of halves (h stands for h/2, so 17 is 8.5), which covers   *)
(* every value the two computed dimensions take and a grid of subjective   *)
(* values.  The weighted sum is computed in IEEE-754 binary64 as Python    *)
(* computes it: a double is held exactly as a sign and a magnitude in      *)
(* units of 2^-60, the magnitude as four 16-bit limbs, least significant   *)
(* first; every product and every partial sum is rounded to 53 significant *)
(* bits, ties to even.  round(x, 2) is the correctly rounded two-decimal   *)
(* value of the exact double, held as a signed count of hundredths.        *)
(*                                                                         *)
(* Text.  A Python str is a sequence of one-character strings.             *)
(***************************************************************************)
EXTENDS Integers, Sequences, FiniteSets, TLC

----------------------------------------------------------------------------
(* binary64 arithmetic *)

Limb == 2 ^ 16

\* the magnitude with limbs m (least significant first, each possibly
\* beyond Limb) with every limb brought below Limb, the carries moved up.
\* Four limbs hold magnitudes below 16.0, which every value of the model
\* stays under.
Carry(m) ==
    LET c1 == m[1] \div Limb
        c2 == (m[2] + c1) \div Limb
        c3 == (m[3] + c2) \div Limb
    IN  <<m[1] % Limb, (m[2] + c1) % Limb, (m[3] + c2) % Limb, (m[4] + c3) % Limb>>

MagZero == <<0, 0, 0, 0>>

MagAdd(a, b) == Carry(<<a[1] + b[1], a[2] + b[2], a[3] + b[3], a[4] + b[4]>>)

\* a < b, compared from the most significant limb down
MagLess(a, b) ==
    \E i \in 1..4 : a[i] < b[i] /\ \A j \in (i + 1)..4 : a[j] = b[j]

\* a - b for a >= b: limb-wise, a borrow of one Limb taken where needed
MagSub(a, b) ==
    LET d1 == a[1] - b[1]
        d2 == a[2] - b[2] - (IF d1 < 0 THEN 1 ELSE 0)
        d3 == a[3] - b[3] - (IF d2 < 0 THEN 1 ELSE 0)
        d4 == a[4] - b[4] - (IF d3 < 0 THEN 1 ELSE 0)
    IN  <<d1 % Limb, d2 % Limb, d3 % Limb, d4 % Limb>>

\* k * m for a small natural k (k * Limb fits a machine integer)
MagMulSmall(k, m) == Carry(<<k * m[1], k * m[2], k * m[3], k * m[4]>>)

\* m / 2 for an even m
MagHalf(m) ==
    <<(m[1] \div 2) + (m[2] % 2) * (Limb \div 2),
      (m[2] \div 2) + (m[3] % 2) * (Limb \div 2),
      (m[3] \div 2) + (m[4] % 2) * (Limb \div 2),
      m[4] \div 2>>

\* the weight of the last kept bit when m is cut to 53 significant bits:
\* bit 52 counted from the top set bit, which lies in the top limb when
\* m >= 2^53 (top limb >= 32)
RECURSIVE UlpOf(_)
UlpOf(top) == IF top < 64 THEN 2 ELSE 2 * UlpOf(top \div 2)

\* m rounded to 53 significant bits, ties to even (the rounding of every
\* binary64 operation); below 2^53 units every multiple of the unit is a double
RoundToDouble(m) ==
    IF m[4] < 32 THEN m
    ELSE LET q    == UlpOf(m[4])
             r    == m[1] % q
             down == [m EXCEPT ![1] = m[1] - r]
             up   == MagAdd(down, <<q, 0, 0, 0>>)
             odd  == ((m[1] \div q) % 2) = 1
         IN  IF 2 * r > q \/ (2 * r = q /\ odd) THEN up ELSE down

FloatZero == [neg |-> FALSE, mag |-> MagZero]

\* x + y in binary64
FloatAdd(x, y) ==
    IF x.neg = y.neg
    THEN [neg |-> x.neg, mag |-> RoundToDouble(MagAdd(x.mag, y.mag))]
    ELSE IF x.mag = y.mag THEN FloatZero
    ELSE IF MagLess(x.mag, y.mag)
    THEN [neg |-> y.neg, mag |-> RoundToDouble(MagSub(y.mag, x.mag))]
    ELSE [neg |-> x.neg, mag |-> RoundToDouble(MagSub(x.mag, y.mag))]

Abs(n) == IF n < 0 THEN -n ELSE n

\* (h/2) * w in binary64, for a score of h halves and a double w >= 0
FloatMul(h, w) ==
    [neg |-> h < 0 /\ w # MagZero,
     mag |-> RoundToDouble(MagHalf(MagMulSmall(Abs(h), w)))]

\* Round2 cutting the digits beyond the second instead of rounding
Round2_truncates(x) ==
    LET m  == x.mag
        c1 == (100 * m[1]) \div Limb
        c2 == (100 * m[2] + c1) \div Limb
        c3 == (100 * m[3] + c2) \div Limb
        c0 == (100 * m[4] + c3) \div 4096
    IN  IF x.neg THEN -c0 ELSE c0

\* round(x, 2): the exact value of x rounded to a whole number of
\* hundredths, ties to even.  100 * mag is cut at the unit, 2^60, which is
\* bit 12 of the fourth limb: c0 whole hundredths, and a remainder whose top
\* twelve bits are r and whose other bits are zero or not (low).
Round2(x) ==
    LET m    == x.mag
        c1   == (100 * m[1]) \div Limb
        c2   == (100 * m[2] + c1) \div Limb
        c3   == (100 * m[3] + c2) \div Limb
        p4   == 100 * m[4] + c3
        c0   == p4 \div 4096
        r    == p4 % 4096
        low  == (100 * m[1]) % Limb # 0 \/ (100 * m[2] + c1) % Limb # 0
                    \/ (100 * m[3] + c2) % Limb # 0
        c    == IF r > 2048 \/ (r = 2048 /\ low) THEN c0 + 1
                ELSE IF r = 2048 /\ c0 % 2 = 1 THEN c0 + 1
                ELSE c0
    IN  IF x.neg THEN -c ELSE c

----------------------------------------------------------------------------
(* ComprehensiveScorer: the weight table *)

\* the doubles nearest to the literals 0.25, 0.20, 0.10, 0.15, in units of 2^-60
Double025 == <<0, 0, 0, 1024>>
Double020 == <<13120, 13107, 13107, 819>>
Double010 == <<39328, 39321, 39321, 409>>
Double015 == <<26208, 26214, 26214, 614>>

\* weights that total 1.10: author_influence given the weight of popularity
weights_over_one ==
    [popularity                |-> 25,
     technical_innovation      |-> 20,
     application_value         |-> 10,
     readability               |-> 15,
     experimental_thoroughness |-> 15,
     author_influence          |-> 25]

\* self.weights, as the literals read (in hundredths)
weights ==
    [popularity                |-> 25,
     technical_innovation      |-> 20,
     application_value         |-> 10,
     readability               |-> 15,
     experimental_thoroughness |-> 15,
     author_influence          |-> 15]

\* self.weights.keys(): a dict iterates in insertion order
WeightKeys ==
    <<"popularity", "technical_innovation", "application_value",
      "readability", "experimental_thoroughness", "author_influence">>

\* the double a weight literal denotes
AsDouble(hundredths) ==
    CASE hundredths = 25 -> Double025
      [] hundredths = 20 -> Double020
      [] hundredths = 10 -> Double010
      [] hundredths = 15 -> Double015

\* scores[key] * self.weights[key], for every key
Products(scores, w) ==
    [k \in DOMAIN w |-> FloatMul(scores[k], AsDouble(w[k]))]

\* sum(... for key in self.weights.keys()): the built-in sum starts from 0
\* and adds the first n products in key order
RECURSIVE SumInOrder(_, _)
SumInOrder(products, n) ==
    IF n = 0 THEN FloatZero
    ELSE FloatAdd(SumInOrder(products, n - 1), products[WeightKeys[n]])

----------------------------------------------------------------------------
(* Python values and text *)

\* a value held under a key of a dict parsed from JSON: the key may be
\* absent, or hold None, an int, a str (s) or a list of str (l)
PyAbsent  == [t |-> "absent", n |-> 0, s |-> <<>>, l |-> <<>>]
PyNone    == [t |-> "none", n |-> 0, s |-> <<>>, l |-> <<>>]
PyInt(n)  == [t |-> "int", n |-> n, s |-> <<>>, l |-> <<>>]
PyStr(s)  == [t |-> "str", n |-> 0, s |-> s, l |-> <<>>]
PyList(l) == [t |-> "list", n |-> 0, s |-> <<>>, l |-> l]

\* dict.get(key, default)
Get(d, key, default) == IF d[key].t = "absent" THEN default ELSE d[key]

UpperCase ==
    <<"A", "B", "C", "D", "E", "F", "G", "H", "I", "J", "K", "L", "M",
      "N", "O", "P", "Q", "R", "S", "T", "U", "V", "W", "X", "Y", "Z">>
LowerCase ==
    <<"a", "b", "c", "d", "e", "f", "g", "h", "i", "j", "k", "l", "m",
      "n", "o", "p", "q", "r", "s", "t", "u", "v", "w", "x", "y", "z">>

\* str.lower()
Lower(s) ==
    [i \in 1..Len(s) |->
        IF \E k \in 1..26 : UpperCase[k] = s[i]
        THEN LowerCase[CHOOSE k \in 1..26 : UpperCase[k] = s[i]]
        ELSE s[i]]

\* sub in s
Contains(sub, s) ==
    \E i \in 1..(Len(s) - Len(sub) + 1) : SubSeq(s, i, i + Len(sub) - 1) = sub

\* ' '.join(l)
RECURSIVE JoinSpace(_)
JoinSpace(l) ==
    IF l = <<>> THEN <<>>
    ELSE IF Len(l) = 1 THEN l[1]
    ELSE l[1] \o <<" ">> \o JoinSpace(Tail(l))

Reverse(q) == [i \in 1..Len(q) |-> q[Len(q) + 1 - i]]

\* what a call does: return v (exc = "") or raise exc
Return(v)    == [exc |-> "", v |-> v]
Raise(e, v0) == [exc |-> e, v |-> v0]

\* a whole score n.0, and 0.5, in halves
Whole(n) == 2 * n
HalfPoint == Whole(1) \div 2

Min(a, b) == IF a <= b THEN a ELSE b

----------------------------------------------------------------------------
(* ComprehensiveScorer: the lookup tables *)

influential_orgs ==
    <<<<"g", "o", "o", "g", "l", "e">>,
      <<"m", "i", "c", "r", "o", "s", "o", "f", "t">>,
      <<"m", "e", "t", "a">>,
      <<"o", "p", "e", "n", "a", "i">>,
      <<"a", "n", "t", "h", "r", "o", "p", "i", "c">>,
      <<"d", "e", "e", "p", "m", "i", "n", "d">>,
      <<"s", "t", "a", "n", "f", "o", "r", "d">>,
      <<"m", "i", "t">>,
      <<"b", "e", "r", "k", "e", "l", "e", "y">>,
      <<"c", "m", "u">>,
      <<"h", "a", "r", "v", "a", "r", "d">>,
      <<"o", "x", "f", "o", "r", "d">>,
      <<"c", "a", "m", "b", "r", "i", "d", "g", "e">>,
      <<"n", "v", "i", "d", "i", "a">>,
      <<"h", "u", "g", "g", "i", "n", "g", "f", "a", "c", "e">>,
      <<"s", "a", "l", "e", "s", "f", "o", "r", "c", "e">>,
      <<"a", "d", "o", "b", "e">>,
      <<"i", "b", "m">>,
      <<"a", "m", "a", "z", "o", "n">>,
      <<"t", "s", "i", "n", "g", "h", "u", "a">>,
      <<"p", "e", "k", "i", "n", "g">>,
      <<"t", "e", "n", "c", "e", "n", "t">>,
      <<"b", "a", "i", "d", "u">>,
      <<"a", "l", "i", "b", "a", "b", "a">>>>

top_conferences ==
    <<<<"i", "c", "m", "l">>,
      <<"n", "e", "u", "r", "i", "p", "s">>,
      <<"i", "c", "l", "r">>,
      <<"a", "a", "a", "i">>,
      <<"i", "j", "c", "a", "i">>,
      <<"a", "c", "l">>,
      <<"e", "m", "n", "l", "p">>,
      <<"n", "a", "a", "c", "l">>,
      <<"c", "v", "p", "r">>,
      <<"i", "c", "c", "v">>,
      <<"e", "c", "c", "v">>,
      <<"k", "d", "d">>,
      <<"w", "w", "w">>,
      <<"s", "i", "g", "i", "r">>,
      <<"w", "s", "d", "m">>,
      <<"i", "c", "s", "e">>,
      <<"f", "s", "e">>>>

Src_github  == <<"g", "i", "t", "h", "u", "b">>
Src_arxiv   == <<"a", "r", "x", "i", "v">>
Src_unknown == <<"u", "n", "k", "n", "o", "w", "n">>
Cat_csAI    == <<"c", "s", ".", "A", "I">>
Cat_csLG    == <<"c", "s", ".", "L", "G">>

----------------------------------------------------------------------------
(* ComprehensiveScorer._calculate_popularity_score *)

\* StarTier with exclusive thresholds (> for >=)
StarTier_exclusive(stars) ==
    IF stars > 10000 THEN Whole(10)
    ELSE IF stars > 5000 THEN Whole(9)
    ELSE IF stars > 1000 THEN Whole(8)
    ELSE IF stars > 500 THEN Whole(7)
    ELSE IF stars > 100 THEN Whole(6)
    ELSE IF stars > 50 THEN Whole(5)
    ELSE IF stars > 10 THEN Whole(4)
    ELSE Whole(3)

\* StarTier with the scores of two tiers exchanged
StarTier_swapped(stars) ==
    IF stars >= 10000 THEN Whole(10)
    ELSE IF stars >= 5000 THEN Whole(8)
    ELSE IF stars >= 1000 THEN Whole(9)
    ELSE IF stars >= 500 THEN Whole(7)
    ELSE IF stars >= 100 THEN Whole(6)
    ELSE IF stars >= 50 THEN Whole(5)
    ELSE IF stars >= 10 THEN Whole(4)
    ELSE Whole(3)

\* the star tiers: the first threshold reached, from the top
\* the tiers with the top one scored 11.0
StarTier_top_eleven(stars) ==
    IF stars >= 10000 THEN Whole(11)
    ELSE IF stars >= 5000 THEN Whole(9)
    ELSE IF stars >= 1000 THEN Whole(8)
    ELSE IF stars >= 500 THEN Whole(7)
    ELSE IF stars >= 100 THEN Whole(6)
    ELSE IF stars >= 50 THEN Whole(5)
    ELSE IF stars >= 10 THEN Whole(4)
    ELSE Whole(3)

StarTier(stars) ==
    IF stars >= 10000 THEN Whole(10)
    ELSE IF stars >= 5000 THEN Whole(9)
    ELSE IF stars >= 1000 THEN Whole(8)
    ELSE IF stars >= 500 THEN Whole(7)
    ELSE IF stars >= 100 THEN Whole(6)
    ELSE IF stars >= 50 THEN Whole(5)
    ELSE IF stars >= 10 THEN Whole(4)
    ELSE Whole(3)

\* the loop without its break, conference_score set on every iteration (2 on
\* a match, else 0): the last venue iterated decides
ConferenceLoop_last_wins(order, i, abstract, title) ==
    IF order # <<>>
         /\ (Contains(order[Len(order)], abstract)
               \/ Contains(order[Len(order)], title))
    THEN Whole(2) ELSE Whole(0)

\* the loop without its break, adding 2 for every venue that occurs
RECURSIVE ConferenceLoop_stacks(_, _, _, _)
ConferenceLoop_stacks(order, i, abstract, title) ==
    IF i > Len(order) THEN Whole(0)
    ELSE (IF Contains(order[i], abstract) \/ Contains(order[i], title)
          THEN Whole(2) ELSE Whole(0))
         + ConferenceLoop_stacks(order, i + 1, abstract, title)

\* for conf in self.top_conferences: if conf in abstract or conf in title:
\*     conference_score = 2; break          (conference_score starts at 0)
RECURSIVE ConferenceLoop(_, _, _, _)
ConferenceLoop(order, i, abstract, title) ==
    IF i > Len(order) THEN Whole(0)
    ELSE IF Contains(order[i], abstract) \/ Contains(order[i], title)
    THEN Whole(2)
    ELSE ConferenceLoop(order, i + 1, abstract, title)

\* any('cs.AI' in cat or 'cs.LG' in cat for cat in categories)
AnyPrestigious(categories) ==
    \E i \in 1..Len(categories) :
        Contains(Cat_csAI, categories[i]) \/ Contains(Cat_csLG, categories[i])

\* the arxiv branch, given the lower-cased abstract and title
ArxivPopularity(item, conf_order, abstract, title) ==
    LET conference_score == ConferenceLoop(conf_order, 1, abstract, title)
        base_score       == Whole(5) + conference_score
        categories       == Get(item, "categories", PyList(<<>>))
    IN  IF categories.t # "list" THEN Raise("TypeError", 0)
        ELSE Return(Min(IF AnyPrestigious(categories.l)
                        THEN base_score + Whole(1) ELSE base_score,
                        Whole(10)))

\* every source but 'arxiv' scored by its stars
_calculate_popularity_score_else_github(item, conf_order) ==
    LET source == Get(item, "source", PyStr(Src_unknown))
    IN  IF source = PyStr(Src_arxiv)
        THEN LET abstract == Get(item, "abstract", PyStr(<<>>))
                 title    == Get(item, "title", PyStr(<<>>))
             IN  IF abstract.t # "str" \/ title.t # "str"
                 THEN Raise("AttributeError", 0)
                 ELSE ArxivPopularity(item, conf_order,
                                      Lower(abstract.s), Lower(title.s))
        ELSE LET stars == Get(item, "stars", PyInt(0))
             IN  IF stars.t # "int" THEN Raise("TypeError", 0)
                 ELSE Return(StarTier(stars.n))

_calculate_popularity_score(item, conf_order) ==
    LET source == Get(item, "source", PyStr(Src_unknown))
    IN  IF source = PyStr(Src_github)
        THEN LET stars == Get(item, "stars", PyInt(0))
             IN  IF stars.t # "int" THEN Raise("TypeError", 0)
                 ELSE Return(StarTier(stars.n))
        ELSE IF source = PyStr(Src_arxiv)
        THEN LET abstract == Get(item, "abstract", PyStr(<<>>))
                 title    == Get(item, "title", PyStr(<<>>))
             IN  IF abstract.t # "str" \/ title.t # "str"
                 THEN Raise("AttributeError", 0)
                 ELSE ArxivPopularity(item, conf_order,
                                      Lower(abstract.s), Lower(title.s))
        ELSE Return(Whole(5))

----------------------------------------------------------------------------
(* ComprehensiveScorer._calculate_author_influence_score *)

\* for org in self.influential_orgs:
\*     if org in author_text:  (or: if org in url or org in description:)
\*         score += 2; break
\* texts holds the one text or the two texts searched
\* the same loop without its break: every organisation found adds 2
RECURSIVE OrgLoop_stacks(_, _, _, _)
OrgLoop_stacks(order, i, texts, score) ==
    IF i > Len(order) THEN score
    ELSE OrgLoop_stacks(order, i + 1, texts,
             IF \E k \in 1..Len(texts) : Contains(order[i], texts[k])
             THEN score + Whole(2) ELSE score)

RECURSIVE OrgLoop(_, _, _, _)
OrgLoop(order, i, texts, score) ==
    IF i > Len(order) THEN score
    ELSE IF \E k \in 1..Len(texts) : Contains(order[i], texts[k])
    THEN score + Whole(2)
    ELSE OrgLoop(order, i + 1, texts, score)

\* the arxiv branch with a collaboration bonus of 3 for five authors or more
ArxivInfluence_big_team(item, org_order, score) ==
    LET authors == Get(item, "authors", PyList(<<>>))
    IN  IF authors.t # "list"
        THEN Raise("TypeError", 0)
        ELSE LET author_text == IF authors.l # <<>>
                                THEN Lower(JoinSpace(authors.l)) ELSE <<>>
                 s1 == OrgLoop(org_order, 1, <<author_text>>, score)
                 s2 == IF Len(authors.l) >= 5 THEN s1 + Whole(3)
                       ELSE IF Len(authors.l) >= 3 THEN s1 + HalfPoint
                       ELSE s1
             IN  Return(Min(s2, Whole(10)))

ArxivInfluence(item, org_order, score) ==
    LET authors == Get(item, "authors", PyList(<<>>))
    IN  IF authors.t # "list"
        THEN Raise("TypeError", 0)
        ELSE LET author_text == IF authors.l # <<>>
                                THEN Lower(JoinSpace(authors.l)) ELSE <<>>
                 s1 == OrgLoop(org_order, 1, <<author_text>>, score)
                 s2 == IF Len(authors.l) >= 5 THEN s1 + Whole(1)
                       ELSE IF Len(authors.l) >= 3 THEN s1 + HalfPoint
                       ELSE s1
             IN  Return(Min(s2, Whole(10)))

\* the github branch without the bonus for stars
GithubInfluence_no_star_bonus(item, org_order, score) ==
    LET url         == Get(item, "url", PyStr(<<>>))
        description == Get(item, "description", PyStr(<<>>))
        stars       == Get(item, "stars", PyInt(0))
    IN  IF url.t # "str" \/ description.t # "str"
        THEN Raise("AttributeError", 0)
        ELSE LET s1 == OrgLoop(org_order, 1,
                               <<Lower(url.s), Lower(description.s)>>, score)
             IN  IF stars.t # "int" THEN Raise("TypeError", 0)
                 ELSE Return(Min(s1, Whole(10)))

\* the github branch with the organisation searched in the url only
GithubInfluence_url_only(item, org_order, score) ==
    LET url         == Get(item, "url", PyStr(<<>>))
        description == Get(item, "description", PyStr(<<>>))
        stars       == Get(item, "stars", PyInt(0))
    IN  IF url.t # "str" \/ description.t # "str"
        THEN Raise("AttributeError", 0)
        ELSE LET s1 == OrgLoop(org_order, 1, <<Lower(url.s)>>, score)
             IN  IF stars.t # "int" THEN Raise("TypeError", 0)
                 ELSE Return(Min(IF stars.n >= 1000 THEN s1 + Whole(1) ELSE s1,
                                 Whole(10)))

GithubInfluence(item, org_order, score) ==
    LET url         == Get(item, "url", PyStr(<<>>))
        description == Get(item, "description", PyStr(<<>>))
        stars       == Get(item, "stars", PyInt(0))
    IN  IF url.t # "str" \/ description.t # "str"
        THEN Raise("AttributeError", 0)
        ELSE LET s1 == OrgLoop(org_order, 1,
                               <<Lower(url.s), Lower(description.s)>>, score)
             IN  IF stars.t # "int" THEN Raise("TypeError", 0)
                 ELSE Return(Min(IF stars.n >= 1000 THEN s1 + Whole(1) ELSE s1,
                                 Whole(10)))

_calculate_author_influence_score(item, org_order) ==
    LET source == Get(item, "source", PyStr(Src_unknown))
        score  == Whole(5)
    IN  IF source = PyStr(Src_arxiv) THEN ArxivInfluence(item, org_order, score)
        ELSE IF source = PyStr(Src_github) THEN GithubInfluence(item, org_order, score)
        ELSE Return(Min(score, Whole(10)))

----------------------------------------------------------------------------
(* ComprehensiveScorer.calculate_comprehensive_score *)

SubjectiveKeys ==
    {"technical_innovation", "application_value", "readability",
     "experimental_thoroughness"}

\* the bundle argument: None, or a dict d from some of the keys to scores
NoneBundle == [t |-> "none", d |-> [k \in SubjectiveKeys |-> 0]]
Bundle(d)  == [t |-> "dict", d |-> d]

\* the value read counted down from 10: 10.0 - llm_scores.get(key, 5.0)
BundleGet_from_ten(llm_scores, key) ==
    IF key \in DOMAIN llm_scores.d THEN Whole(10) - llm_scores.d[key]
    ELSE Whole(5)

\* llm_scores.get(key, 0.0)
BundleGet_zero_default(llm_scores, key) ==
    IF key \in DOMAIN llm_scores.d THEN llm_scores.d[key] ELSE Whole(0)

\* llm_scores.get(key, 5.0)
BundleGet(llm_scores, key) ==
    IF key \in DOMAIN llm_scores.d THEN llm_scores.d[key] ELSE Whole(5)

\* the value slot of a call that raised (never read)
NoScores == [k \in DOMAIN weights |-> 0]
NoResult ==
    [individual_scores |-> NoScores, final_score |-> 0,
     score_breakdown |-> NoScores]

\* the ScoreResult whose final_score leaves the last dimension out of the sum
ScoreResult_final_misses_last(scores) ==
    LET products == Products(scores, weights)
    IN  [individual_scores |-> scores,
         final_score       |->
             Round2(SumInOrder(products, Len(WeightKeys) - 1)),
         score_breakdown   |-> [k \in DOMAIN weights |-> Round2(products[k])]]

\* the ScoreResult whose breakdown leaves the weight out: round(scores[k], 2)
ScoreResult_breakdown_unweighted(scores) ==
    LET products == Products(scores, weights)
    IN  [individual_scores |-> scores,
         final_score       |-> Round2(SumInOrder(products, Len(WeightKeys))),
         score_breakdown   |->
             [k \in DOMAIN weights |->
                 Round2(FloatMul(scores[k], MagMulSmall(4, Double025)))]]

\* the ScoreResult built from the six scores
ScoreResult(scores) ==
    LET products == Products(scores, weights)
    IN  [individual_scores |-> scores,
         final_score       |-> Round2(SumInOrder(products, Len(WeightKeys))),
         score_breakdown   |-> [k \in DOMAIN weights |-> Round2(products[k])]]

calculate_comprehensive_score(item, llm_scores, conf_order, org_order) ==
    LET popularity == _calculate_popularity_score(item, conf_order)
        author     == _calculate_author_influence_score(item, org_order)
    IN  IF popularity.exc # "" THEN Raise(popularity.exc, NoResult)
        ELSE IF llm_scores.t # "dict" THEN Raise("AttributeError", NoResult)
        ELSE IF author.exc # "" THEN Raise(author.exc, NoResult)
        ELSE Return(ScoreResult(
                 [k \in DOMAIN weights |->
                     IF k = "popularity" THEN popularity.v
                     ELSE IF k = "author_influence" THEN author.v
                     ELSE BundleGet(llm_scores, k)]))

----------------------------------------------------------------------------
(* GPTSummarizer: one item *)

\* the classifier's reply to the prompt of one item: the API call raised,
\* the text was not JSON, or it was a JSON object whose scoring_dimensions
\* key is absent or holds a bundle
Reply(kind, scoring_dimensions) ==
    [kind |-> kind, scoring_dimensions |-> scoring_dimensions]

AbsentBundle == [t |-> "absent", d |-> [k \in SubjectiveKeys |-> 0]]

\* a summary record, or None
NoSummary ==
    [t |-> "none", scoring_dimensions |-> AbsentBundle,
     comprehensive_scores |-> NoResult, final_score |-> 0]
Summary(scoring_dimensions, comprehensive_scores) ==
    [t |-> "dict", scoring_dimensions |-> scoring_dimensions,
     comprehensive_scores |-> comprehensive_scores,
     final_score |-> comprehensive_scores.final_score]

\* bool(v)
Truthy(v) ==
    CASE v.t = "int"  -> v.n # 0
      [] v.t = "str"  -> v.s # <<>>
      [] v.t = "list" -> v.l # <<>>
      [] OTHER        -> FALSE

\* item.get("description") or item.get("abstract", "No description available")
DescriptionOf(item) ==
    IF Truthy(item.description) THEN item.description
    ELSE Get(item, "abstract", PyStr(<<"N", "o">>))

\* summary_data.get("scoring_dimensions", {})
ScoringDimensions(reply) ==
    IF reply.scoring_dimensions.t = "absent"
    THEN Bundle(<<>>) ELSE reply.scoring_dimensions

\* the scorer call _summarize_single_item makes, when it makes one
SingleItemScore(item, reply, conf_order, org_order) ==
    calculate_comprehensive_score(item, ScoringDimensions(reply),
                                  conf_order, org_order)

\* _summarize_single_item: description[:2000] is evaluated before the try;
\* inside it every exception is caught and None returned
_summarize_single_item(item, reply, conf_order, org_order) ==
    IF DescriptionOf(item).t \in {"none", "int"} THEN Raise("TypeError", NoSummary)
    ELSE IF reply.kind # "json" THEN Return(NoSummary)
    ELSE LET comprehensive_scores ==
                 SingleItemScore(item, reply, conf_order, org_order)
         IN  IF comprehensive_scores.exc # "" THEN Return(NoSummary)
             ELSE Return(Summary(reply.scoring_dimensions, comprehensive_scores.v))

fallback_scoring ==
    Bundle([k \in SubjectiveKeys |-> Whole(5)])

\* the scorer call _create_fallback_summary makes
FallbackScore(item, conf_order, org_order) ==
    calculate_comprehensive_score(item, fallback_scoring, conf_order, org_order)

\* _create_fallback_summary: the scorer's exception propagates; building the
\* record then evaluates, off the arxiv branch, "/" in url, and title[:100]
_create_fallback_summary(item, conf_order, org_order) ==
    LET comprehensive_scores == FallbackScore(item, conf_order, org_order)
        title == Get(item, "title", PyStr(<<"N", "o">>))
        url   == Get(item, "url", PyStr(<<>>))
    IN  IF comprehensive_scores.exc # ""
        THEN Raise(comprehensive_scores.exc, NoSummary)
        ELSE IF item.source # PyStr(Src_arxiv) /\ url.t # "str"
        THEN Raise("TypeError", NoSummary)
        ELSE IF title.t # "str" THEN Raise("TypeError", NoSummary)
        ELSE Return(Summary(fallback_scoring, comprehensive_scores.v))

----------------------------------------------------------------------------
(* inputs *)

MaxStars == 160000
MaxAuthors == 5
MaxCalls == 2
MaxOver == 2

Url_org        == <<"g", "i", "t", "h", "u", "b", ".", "c", "o", "m", "/", "O", "p", "e", "n", "A", "I", "/", "g", "y", "m">>
Url_plain      == <<"g", "i", "t", "h", "u", "b", ".", "c", "o", "m", "/", "u", "/", "r">>
Desc_org       == <<"c", "o", "m", "m", "i", "t", " ", "l", "o", "g">>
Title_venue    == <<"I", "C", "M", "L", " ", "n", "o", "t", "e", "s">>
Title_inner    == <<"O", "r", "a", "c", "l", "e">>
Abstract_venue == <<"a", "t", " ", "N", "e", "u", "r", "I", "P", "S">>
Author_plain   == <<"A", " ", "B">>
Author_org     == <<"C", " ", "(", "S", "t", "a", "n", "f", "o", "r", "d", ")">>
Author_org2    == <<"D", " ", "(", "M", "I", "T", ")">>
Cat_csSE       == <<"c", "s", ".", "S", "E">>
Cat_lower      == <<"c", "s", ".", "a", "i">>
Src_rss        == <<"r", "s", "s">>

Item(source, stars, title, abstract, description, url, authors, categories) ==
    [source |-> source, stars |-> stars, title |-> title, abstract |-> abstract,
     description |-> description, url |-> url, authors |-> authors,
     categories |-> categories]

StarThresholds == {10, 50, 100, 500, 1000, 5000, 10000}

\* star counts on, just below and away from every tier threshold
StarCounts == {0, MaxStars} \cup StarThresholds \cup {t - 1 : t \in StarThresholds}

GithubItems ==
    {Item(PyStr(Src_github), stars, PyAbsent, PyAbsent, description, url,
          PyAbsent, PyAbsent) :
        stars \in {PyAbsent} \cup {PyInt(n) : n \in StarCounts},
        description \in {PyAbsent, PyStr(Desc_org)},
        url \in {PyStr(Url_org), PyStr(Url_plain)}}

\* author lists of every length up to MaxAuthors, with and without an
\* affiliation in the first name, and one naming two organisations
AuthorLists ==
    {PyList([i \in 1..n |-> Author_plain]) : n \in 0..MaxAuthors}
    \cup {PyList([i \in 1..n |-> IF i = 1 THEN Author_org ELSE Author_plain]) :
            n \in 1..MaxAuthors}
    \cup {PyList(<<Author_plain, Author_org, Author_org2>>)}

ArxivItems ==
    {Item(PyStr(Src_arxiv), PyAbsent, title, abstract, PyAbsent, PyAbsent,
          authors, categories) :
        title \in {PyAbsent, PyStr(Title_venue), PyStr(Title_inner)},
        abstract \in {PyAbsent, PyStr(Abstract_venue)},
        authors \in {PyAbsent} \cup AuthorLists,
        categories \in {PyAbsent, PyList(<<Cat_csSE, Cat_csAI>>),
                        PyList(<<Cat_csLG>>), PyList(<<Cat_lower>>)}}

\* items of no recognised source, with well-formed and malformed fields
OtherItems ==
    {Item(source, stars, title, PyAbsent, PyAbsent, url, authors, PyAbsent) :
        source \in {PyAbsent, PyNone, PyStr(Src_rss)},
        stars \in {PyInt(MaxStars), PyNone},
        title \in {PyStr(Title_venue)},
        url \in {PyStr(Url_org)},
        authors \in {PyAbsent, PyList(<<Author_org, Author_plain, Author_plain>>)}}

\* items with one field absent-by-None or of the wrong type
MalformedItems ==
    {Item(PyStr(Src_github), PyNone, PyAbsent, PyAbsent, PyAbsent,
          PyStr(Url_plain), PyAbsent, PyAbsent),
     Item(PyStr(Src_github), PyStr(<<"1", "2">>), PyAbsent, PyAbsent, PyAbsent,
          PyStr(Url_plain), PyAbsent, PyAbsent),
     Item(PyStr(Src_github), PyInt(10), PyAbsent, PyAbsent, PyNone,
          PyStr(Url_plain), PyAbsent, PyAbsent),
     Item(PyStr(Src_github), PyInt(10), PyAbsent, PyAbsent, PyAbsent,
          PyNone, PyAbsent, PyAbsent),
     Item(PyStr(Src_arxiv), PyAbsent, PyNone, PyAbsent, PyAbsent, PyAbsent,
          PyAbsent, PyAbsent),
     Item(PyStr(Src_arxiv), PyAbsent, PyAbsent, PyInt(7), PyAbsent, PyAbsent,
          PyAbsent, PyAbsent),
     Item(PyStr(Src_arxiv), PyAbsent, PyAbsent, PyAbsent, PyAbsent, PyAbsent,
          PyNone, PyAbsent),
     Item(PyStr(Src_arxiv), PyAbsent, PyAbsent, PyAbsent, PyAbsent, PyAbsent,
          PyAbsent, PyNone)}

Items == GithubItems \cup ArxivItems \cup OtherItems \cup MalformedItems

\* the bundle of the repository's own example, and the empty bundle
ExampleBundle ==
    Bundle([technical_innovation |-> 15, application_value |-> 19,
            readability |-> 17, experimental_thoroughness |-> 12])

\* subjective values: the ends of [0,10], a value whose weighted products
\* fall on decimal ties, and values MaxOver halves outside the range
GridValues == {0, 17, Whole(10), -MaxOver, Whole(10) + MaxOver}

\* every full bundle with values from the grid, and every bundle holding
\* only some of the keys
GridBundles ==
    {Bundle(d) : d \in [SubjectiveKeys -> GridValues]}
    \cup {Bundle([k \in keys |-> 17]) : keys \in SUBSET SubjectiveKeys}

\* the items the grid is scored on: the lowest and highest computed scores
GridItems ==
    {Item(PyStr(Src_github), PyInt(0), PyAbsent, PyAbsent, PyAbsent,
          PyStr(Url_plain), PyAbsent, PyAbsent),
     Item(PyStr(Src_github), PyInt(MaxStars), PyAbsent, PyAbsent, PyAbsent,
          PyStr(Url_org), PyAbsent, PyAbsent)}

\* the bundles an item is scored with
BundlesFor(it) ==
    {ExampleBundle, Bundle(<<>>)}
    \cup (IF it \in GridItems THEN GridBundles \cup {NoneBundle} ELSE {})

\* A Python set of str iterates in an order fixed by the process's string
\* hashing.  The orders of top_conferences and influential_orgs modelled are
\* the order of the literals and its reverse.
SetOrders ==
    {<<top_conferences, influential_orgs>>,
     <<Reverse(top_conferences), Reverse(influential_orgs)>>}

----------------------------------------------------------------------------
(* the scorer and the summarizer applied to one item *)

VARIABLES
    item,        \* the item dict
    llm,         \* the bundle: the argument of the direct calls, or what the
                 \* classifier's JSON holds under scoring_dimensions
    pc,          \* "ready", or the operation that has run
    calls,       \* the outcomes of the direct scorer calls made, in order
    summary      \* the outcome of the summarizer operation that has run

\* one scorer object shared by concurrent invocations
VARIABLES
    self,        \* the ComprehensiveScorer: its three tables
    built,       \* self as __init__ left it
    items,       \* the item dict of every invocation (each its own object)
    dicts,       \* the other dicts alive, by identity: bundles and scores
    frame,       \* every invocation's position, arguments and locals
    reads,       \* the objects every invocation has read
    writes       \* the objects every invocation has written

\* one pass of GPTSummarizer.summarize_items
VARIABLES
    client,            \* whether self.client is configured
    todo,              \* the items argument
    batch_size,        \* the batch_size argument
    scorer_order,      \* the iteration orders of self.scorer's two sets
    pos,               \* how many items the loops have visited
    summarized_items,  \* the list being built, then returned
    replied,           \* for every item, what the classifier replied
    scored,            \* for every item, the scorer calls made on it
    bpc                \* "running", "returned", or "raised"

\* one run of ReportGenerator over a list of summaries
VARIABLES
    summaries,      \* the summaries argument
    md_sections,    \* the category sections of the Markdown body, in order
    html_sections,  \* the category sections of the HTML body, in order
    md_head,        \* Total Items and Sources as the Markdown body gives them
    html_head,      \* Total Items and Sources as the HTML body gives them
    rpc             \* the report being generated, or "done"

\* one DataCleaner and the calls of clean_and_deduplicate made on it
VARIABLES
    seen_hashes,   \* self.seen_hashes
    data_list,     \* the argument of the last call
    cleaned_data,  \* what the last call returned
    seen_before,   \* self.seen_hashes as the last call found it
    emitted,       \* every item any call has returned, in order
    cleanings,     \* how many calls have been made
    cpc            \* "ready", "returned" or "raised" (the last call)

\* one call of AICodeDigestRunner.run_daily_digest, then main's exit
VARIABLES
    config,     \* self.config: which sources and whether email are enabled
    recipient,  \* whether the recipient environment variable is set
    dry_run,    \* the dry_run argument
    runpc,      \* the step run_daily_digest is about to take
    raw_data,   \* what fetch_all_data returned
    events,     \* every call made on a collaborator, with its outcome
    returned,   \* what run_daily_digest returned, once it has
    exit_code   \* the status main exits with, once it has

oneVars    == <<item, llm, pc, calls, summary>>
sharedVars == <<self, built, items, dicts, frame, reads, writes>>
batchVars  == <<client, todo, batch_size, scorer_order, pos,
                summarized_items, replied, scored, bpc>>
reportVars == <<summaries, md_sections, html_sections, md_head, html_head,
                rpc>>
cleanerVars == <<seen_hashes, data_list, cleaned_data, seen_before, emitted,
                 cleanings, cpc>>
runnerVars == <<config, recipient, dry_run, runpc, raw_data, events,
                returned, exit_code>>

vars == <<oneVars, sharedVars, batchVars, reportVars, cleanerVars,
          runnerVars>>

\* what the operations on a single item, on the shared scorer, of a pass,
\* of a report, of a cleaner and of a run leave alone
notOne    == <<sharedVars, batchVars, reportVars, cleanerVars, runnerVars>>
notShared == <<oneVars, batchVars, reportVars, cleanerVars, runnerVars>>
notBatch  == <<oneVars, sharedVars, reportVars, cleanerVars, runnerVars>>
notReport == <<oneVars, sharedVars, batchVars, cleanerVars, runnerVars>>
notCleaner == <<oneVars, sharedVars, batchVars, reportVars, runnerVars>>
notRunner == <<oneVars, sharedVars, batchVars, reportVars, cleanerVars>>

\* no run of the digest under way
RunnerIdle ==
    /\ config = <<>> /\ recipient = FALSE /\ dry_run = FALSE
    /\ runpc = "idle" /\ raw_data = <<>> /\ events = <<>>
    /\ returned = "none" /\ exit_code = -1

\* no cleaner in use
CleanerIdle ==
    /\ seen_hashes = {} /\ data_list = <<>> /\ cleaned_data = <<>>
    /\ seen_before = {} /\ emitted = <<>> /\ cleanings = 0 /\ cpc = "idle"

\* no report under way
ReportIdle ==
    /\ summaries = <<>> /\ md_sections = <<>> /\ html_sections = <<>>
    /\ md_head = <<>> /\ html_head = <<>>
    /\ rpc = "idle"

\* no pass of summarize_items under way
BatchIdle ==
    /\ client = FALSE /\ todo = <<>> /\ batch_size = 0 /\ scorer_order = <<>>
    /\ pos = 0 /\ summarized_items = <<>> /\ replied = <<>> /\ scored = <<>>
    /\ bpc = "idle"

\* no shared scorer in use
SharedIdle ==
    /\ self = <<>> /\ built = <<>> /\ items = <<>> /\ dicts = <<>>
    /\ frame = <<>> /\ reads = <<>> /\ writes = <<>>

\* no single item under way
OneIdle ==
    /\ item = <<>> /\ llm = AbsentBundle /\ pc = "idle" /\ calls = <<>>
    /\ summary = Return(NoSummary)

Init ==
    /\ item \in Items
    /\ llm = AbsentBundle
    /\ pc = "ready"
    /\ calls = <<>>
    /\ summary = Return(NoSummary)
    /\ SharedIdle
    /\ BatchIdle
    /\ ReportIdle
    /\ CleanerIdle
    /\ RunnerIdle

\* scorer.calculate_comprehensive_score(item, llm_scores), as the tests
\* call it
DirectCall ==
    /\ pc = "ready"
    /\ \E llm_scores \in BundlesFor(item), order \in SetOrders :
          /\ llm' = llm_scores
          /\ calls' = <<calculate_comprehensive_score(
                            item, llm_scores, order[1], order[2])>>
    /\ pc' = "scored"
    /\ UNCHANGED <<item, summary, notOne>>

\* the same call again, by the same process or by another
RepeatCall ==
    /\ pc = "scored"
    /\ Len(calls) < MaxCalls
    /\ \E order \in SetOrders :
          calls' = Append(calls, calculate_comprehensive_score(
                                     item, llm, order[1], order[2]))
    /\ UNCHANGED <<item, llm, pc, summary, notOne>>

\* self._summarize_single_item(item), for each reply of the classifier
SummarizeSingleItem ==
    /\ pc = "ready"
    /\ \E kind \in {"json", "not_json", "api_error"},
          scoring_dimensions \in BundlesFor(item) \cup {AbsentBundle},
          order \in SetOrders :
          /\ llm' = scoring_dimensions
          /\ summary' = _summarize_single_item(
                            item, Reply(kind, scoring_dimensions),
                            order[1], order[2])
    /\ pc' = "summarized"
    /\ UNCHANGED <<item, calls, notOne>>

\* self._create_fallback_summary(item)
CreateFallbackSummary ==
    /\ pc = "ready"
    /\ \E order \in SetOrders :
          summary' = _create_fallback_summary(item, order[1], order[2])
    /\ pc' = "fallback"
    /\ UNCHANGED <<item, llm, calls, notOne>>

Next ==
    \/ DirectCall
    \/ RepeatCall
    \/ SummarizeSingleItem
    \/ CreateFallbackSummary

Spec == Init /\ [][Next]_vars

----------------------------------------------------------------------------
(* properties of calculate_comprehensive_score *)

\* what the i-th direct call returned, when it returned
Returned(i) == calls[i].exc = ""
ResultOf(i) == calls[i].v

\* the bundle holds only values in [0,10]
InRange(b) == b.t = "dict" /\ \A k \in DOMAIN b.d : b.d[k] \in 0..Whole(10)

SourceIs(src) == item.source = PyStr(src)

\* C1: for every item and every bundle whose values all lie in [0,10], the
\* final_score a call returns lies in [0,10] (0..1000 hundredths).
C1_FinalScoreInRange ==
    \A i \in 1..Len(calls) :
        Returned(i) /\ InRange(llm) => ResultOf(i).final_score \in 0..1000

\* a call on a full in-range bundle returned the highest final_score, 9.70
C1_Witness ==
    /\ Len(calls) >= 1 /\ Returned(1) /\ InRange(llm)
    /\ DOMAIN llm.d = SubjectiveKeys
    /\ ResultOf(1).final_score = 970

\* the exact weighted sum of six scores, in units of 1/200 (a score of h
\* halves times a weight of w hundredths is h * w / 200)
RECURSIVE ExactSum(_, _)
ExactSum(scores, keys) ==
    IF keys = {} THEN 0
    ELSE LET k == CHOOSE x \in keys : TRUE
         IN  scores[k] * weights[k] + ExactSum(scores, keys \ {k})

RECURSIVE WeightTotal(_)
WeightTotal(keys) ==
    IF keys = {} THEN 0
    ELSE LET k == CHOOSE x \in keys : TRUE
         IN  weights[k] + WeightTotal(keys \ {k})

\* C2: final_score is the weighted sum over exactly the six dimensions
\* rounded to 2 decimals (a nearest hundredth: within 0.005 of the exact
\* sum), with the weights 0.25, 0.20, 0.10, 0.15, 0.15, 0.15, which total 1.0.
C2_FinalScoreIsRoundedWeightedSum ==
    /\ weights = [popularity |-> 25, technical_innovation |-> 20,
                  application_value |-> 10, readability |-> 15,
                  experimental_thoroughness |-> 15, author_influence |-> 15]
    /\ WeightTotal(DOMAIN weights) = 100
    /\ \A i \in 1..Len(calls) :
          Returned(i) =>
             /\ DOMAIN ResultOf(i).individual_scores = DOMAIN weights
             /\ Abs(2 * ResultOf(i).final_score
                      - ExactSum(ResultOf(i).individual_scores, DOMAIN weights)) <= 1

\* a call returned on scores whose exact weighted sum is a decimal tie
\* (an odd number of 1/200)
C2_Witness ==
    /\ Len(calls) >= 1 /\ Returned(1)
    /\ ExactSum(ResultOf(1).individual_scores, DOMAIN weights) % 2 = 1
    /\ \E k \in SubjectiveKeys : ResultOf(1).individual_scores[k] = 17

\* C3: each subjective dimension missing from the bundle gets exactly 5.0 in
\* individual_scores; so do all four when the classifier's JSON holds no
\* bundle, and on the summarizer's fallback path.
C3_MissingDimensionsDefaultToFive ==
    /\ \A i \in 1..Len(calls) :
          Returned(i) =>
             \A k \in SubjectiveKeys :
                IF k \in DOMAIN llm.d
                THEN ResultOf(i).individual_scores[k] = llm.d[k]
                ELSE ResultOf(i).individual_scores[k] = Whole(5)
    /\ pc = "summarized" /\ summary.v.t = "dict" /\ llm.t = "absent" =>
          \A k \in SubjectiveKeys :
             summary.v.comprehensive_scores.individual_scores[k] = Whole(5)
    /\ pc = "fallback" /\ summary.exc = "" =>
          \A k \in SubjectiveKeys :
             summary.v.comprehensive_scores.individual_scores[k] = Whole(5)

\* the summarizer scored an item whose classifier reply held no bundle
C3_Witness ==
    /\ pc = "summarized" /\ summary.v.t = "dict" /\ llm.t = "absent"
    /\ summary.v.comprehensive_scores.individual_scores["readability"] = Whole(5)

\* C4: a github item's popularity is 3.0 plus 1.0 for every threshold among
\* 10, 50, 100, 500, 1000, 5000, 10000 that the star count reaches, a count
\* equal to a threshold reaching it (absent stars count as 0).
C4_StarTiers ==
    \A i \in 1..Len(calls) :
        Returned(i) /\ SourceIs(Src_github) =>
            LET stars == IF item.stars.t = "absent" THEN 0 ELSE item.stars.n
            IN  ResultOf(i).individual_scores["popularity"] =
                    Whole(3 + Cardinality(
                        {t \in {10, 50, 100, 500, 1000, 5000, 10000} : stars >= t}))

\* a github item with exactly 1000 stars was scored 8.0
C4_Witness ==
    /\ Len(calls) >= 1 /\ Returned(1) /\ SourceIs(Src_github)
    /\ item.stars = PyInt(1000)
    /\ ResultOf(1).individual_scores["popularity"] = Whole(8)

\* the item with its star count replaced
WithStars(it, n) == [it EXCEPT !.stars = PyInt(n)]

\* C5: repository popularity is monotonic non-decreasing in the star count:
\* every smaller count scores no more, every larger count no less.
C5_PopularityMonotonic ==
    \A i \in 1..Len(calls) :
        Returned(i) /\ SourceIs(Src_github) /\ item.stars.t = "int" =>
            \A n \in StarCounts :
                LET other == _calculate_popularity_score(
                                 WithStars(item, n), top_conferences).v
                    mine  == ResultOf(i).individual_scores["popularity"]
                IN  /\ n <= item.stars.n => other <= mine
                    /\ n >= item.stars.n => other >= mine

\* a github item with 5000 stars was scored
C5_Witness ==
    /\ Len(calls) >= 1 /\ Returned(1) /\ SourceIs(Src_github)
    /\ item.stars = PyInt(5000)

\* C6: for an item whose source is neither 'github' nor 'arxiv' (or absent)
\* the call returns whatever the other fields hold, with popularity 5.0 and
\* author_influence 5.0; with the empty bundle all six scores are 5.0 and
\* final_score is exactly 5.0.
C6_UnknownSourceIsNeutral ==
    \A i \in 1..Len(calls) :
        ~SourceIs(Src_github) /\ ~SourceIs(Src_arxiv) /\ llm.t = "dict" =>
            /\ Returned(i)
            /\ ResultOf(i).individual_scores["popularity"] = Whole(5)
            /\ ResultOf(i).individual_scores["author_influence"] = Whole(5)
            /\ llm = Bundle(<<>>) =>
                  /\ \A k \in DOMAIN weights :
                        ResultOf(i).individual_scores[k] = Whole(5)
                  /\ ResultOf(i).final_score = 500

\* an item of source 'rss' with stars None and authors was scored on the
\* empty bundle
C6_Witness ==
    /\ Len(calls) >= 1 /\ Returned(1) /\ SourceIs(Src_rss)
    /\ item.stars = PyNone /\ item.authors.t = "list"
    /\ llm = Bundle(<<>>) /\ ResultOf(1).final_score = 500

\* C7: for any bundle the classifier supplies, values outside [0,10]
\* included, every individual score and the final_score lie in [0,10].
C7_ScoresClamped ==
    /\ \A i \in 1..Len(calls) :
          Returned(i) =>
             /\ \A k \in DOMAIN weights :
                   ResultOf(i).individual_scores[k] \in 0..Whole(10)
             /\ ResultOf(i).final_score \in 0..1000
    /\ pc = "summarized" /\ summary.v.t = "dict" =>
          /\ \A k \in DOMAIN weights :
                summary.v.comprehensive_scores.individual_scores[k] \in 0..Whole(10)
          /\ summary.v.final_score \in 0..1000

\* C8: calculate_comprehensive_score raises no error whatever the item's
\* fields hold: absent, None or of the wrong type, it still returns a
\* ScoreResult.
C8_NeverRaises ==
    \A i \in 1..Len(calls) : llm.t = "dict" => Returned(i)

\* C9: two calls with identical item and bundle, by the same scorer or by
\* another (whatever the iteration order of its two sets), have identical
\* outcomes.
C9_Deterministic ==
    \A i, j \in 1..Len(calls) : calls[i] = calls[j]

\* an arxiv item whose title and abstract name two different venues was
\* scored twice
C9_Witness ==
    /\ Len(calls) >= 2 /\ Returned(1) /\ Returned(2) /\ SourceIs(Src_arxiv)
    /\ item.title = PyStr(Title_venue) /\ item.abstract = PyStr(Abstract_venue)

\* a venue acronym occurs in the lower-cased title or abstract
VenueOccurs(it) ==
    \E n \in 1..Len(top_conferences) :
        \/ it.title.t = "str" /\ Contains(top_conferences[n], Lower(it.title.s))
        \/ it.abstract.t = "str"
               /\ Contains(top_conferences[n], Lower(it.abstract.s))

\* a category tag contains 'cs.AI' or 'cs.LG'
CategoryOccurs(it) ==
    \E n \in 1..Len(it.categories.l) :
        \/ Contains(Cat_csAI, it.categories.l[n])
        \/ Contains(Cat_csLG, it.categories.l[n])

\* C10: an arxiv item's popularity is min(10.0, 5.0 + V + C): V is 2.0 when
\* some venue acronym occurs, case-insensitively, in the title or the
\* abstract (once, however many occur), C is 1.0 when some category tag
\* contains 'cs.AI' or 'cs.LG'.
C10_ArxivPopularity ==
    \A i \in 1..Len(calls) :
        Returned(i) /\ SourceIs(Src_arxiv) =>
            ResultOf(i).individual_scores["popularity"] =
                Min(Whole(10),
                    Whole(5) + (IF VenueOccurs(item) THEN Whole(2) ELSE 0)
                             + (IF CategoryOccurs(item) THEN Whole(1) ELSE 0))

\* an arxiv item naming two venues, with a cs.AI tag, was scored 8.0
C10_Witness ==
    /\ Len(calls) >= 1 /\ Returned(1) /\ SourceIs(Src_arxiv)
    /\ item.title = PyStr(Title_venue) /\ item.abstract = PyStr(Abstract_venue)
    /\ item.categories = PyList(<<Cat_csSE, Cat_csAI>>)
    /\ ResultOf(1).individual_scores["popularity"] = Whole(8)

----------------------------------------------------------------------------
(* properties of _calculate_author_influence_score *)

\* some organisation fragment is a substring of one of the texts
OrgOccurs(texts) ==
    \E n \in 1..Len(influential_orgs), k \in 1..Len(texts) :
        Contains(influential_orgs[n], texts[k])

\* the authors of the item (none when the key is absent)
AuthorsOf(it) == IF it.authors.t = "list" THEN it.authors.l ELSE <<>>

\* C11: an arxiv item's author_influence is min(10.0, 5.0 + O + B): O is 2.0
\* when some organisation fragment occurs in the lower-cased author strings
\* joined by spaces (once, however many occur), B is 1.0 for 5 or more
\* authors, 0.5 for 3 or 4, and 0 otherwise.
C11_ArxivAuthorInfluence ==
    \A i \in 1..Len(calls) :
        Returned(i) /\ SourceIs(Src_arxiv) =>
            LET authors == AuthorsOf(item)
                O == IF OrgOccurs(<<Lower(JoinSpace(authors))>>)
                     THEN Whole(2) ELSE 0
                B == IF Len(authors) >= 5 THEN Whole(1)
                     ELSE IF Len(authors) >= 3 THEN HalfPoint ELSE 0
            IN  ResultOf(i).individual_scores["author_influence"] =
                    Min(Whole(10), Whole(5) + O + B)

\* three authors, two of them naming an organisation, were scored 7.5
C11_Witness ==
    /\ Len(calls) >= 1 /\ Returned(1) /\ SourceIs(Src_arxiv)
    /\ item.authors = PyList(<<Author_plain, Author_org, Author_org2>>)
    /\ ResultOf(1).individual_scores["author_influence"] = 15

\* C12: a github item's author_influence is min(10.0, 5.0 + O + S): O is 2.0
\* when some organisation fragment occurs in the lower-cased url or in the
\* lower-cased description (once), S is 1.0 when stars >= 1000.
C12_GithubAuthorInfluence ==
    \A i \in 1..Len(calls) :
        Returned(i) /\ SourceIs(Src_github) =>
            LET url   == IF item.url.t = "str" THEN item.url.s ELSE <<>>
                desc  == IF item.description.t = "str"
                         THEN item.description.s ELSE <<>>
                stars == IF item.stars.t = "int" THEN item.stars.n ELSE 0
                O == IF OrgOccurs(<<Lower(url), Lower(desc)>>)
                     THEN Whole(2) ELSE 0
                S == IF stars >= 1000 THEN Whole(1) ELSE 0
            IN  ResultOf(i).individual_scores["author_influence"] =
                    Min(Whole(10), Whole(5) + O + S)

\* a repository whose description alone holds a fragment ('mit' in
\* 'commit log'), with exactly 1000 stars, was scored 8.0
C12_Witness ==
    /\ Len(calls) >= 1 /\ Returned(1) /\ SourceIs(Src_github)
    /\ item.url = PyStr(Url_plain) /\ item.description = PyStr(Desc_org)
    /\ item.stars = PyInt(1000)
    /\ ResultOf(1).individual_scores["author_influence"] = Whole(8)

----------------------------------------------------------------------------
(* properties of the ScoreResult *)

\* C13: popularity lies in [3,10] for a github item and in [5,10] for an
\* arxiv item, and author_influence never exceeds 10.0 on either path.
C13_SubScoreRanges ==
    \A i \in 1..Len(calls) :
        Returned(i) =>
            LET s == ResultOf(i).individual_scores
            IN  /\ SourceIs(Src_github) =>
                      s["popularity"] \in Whole(3)..Whole(10)
                /\ SourceIs(Src_arxiv) =>
                      s["popularity"] \in Whole(5)..Whole(10)
                /\ s["author_influence"] <= Whole(10)

\* the most-starred repository of an organisation was scored 10.0 and 8.0
C13_Witness ==
    /\ Len(calls) >= 1 /\ Returned(1) /\ SourceIs(Src_github)
    /\ item.stars = PyInt(MaxStars) /\ item.url = PyStr(Url_org)
    /\ ResultOf(1).individual_scores["popularity"] = Whole(10)
    /\ ResultOf(1).individual_scores["author_influence"] = Whole(8)

\* C14: individual_scores and score_breakdown have exactly the six keys of
\* the weight table, and every score_breakdown[dim] is individual_scores[dim]
\* times weight[dim] rounded to 2 decimals (a nearest hundredth of the exact
\* product, which is scores[dim] * weights[dim] / 200).
C14_BreakdownIsRoundedProduct ==
    \A i \in 1..Len(calls) :
        Returned(i) =>
            LET r == ResultOf(i)
            IN  /\ DOMAIN r.individual_scores = DOMAIN weights
                /\ DOMAIN r.score_breakdown = DOMAIN weights
                /\ Cardinality(DOMAIN r.score_breakdown) = 6
                /\ \A k \in DOMAIN weights :
                      Abs(2 * r.score_breakdown[k]
                            - r.individual_scores[k] * weights[k]) <= 1

\* readability 8.5 was weighted: the product 1.275 is a decimal tie, and the
\* breakdown holds 1.27
C14_Witness ==
    /\ Len(calls) >= 1 /\ Returned(1)
    /\ ResultOf(1).individual_scores["readability"] = 17
    /\ ResultOf(1).score_breakdown["readability"] = 127

\* C15: for a github item with stars = 160000 (or more), no organisation
\* fragment in its url or description, and the bundle {technical_innovation
\* 7.5, application_value 9.5, readability 8.5, experimental_thoroughness
\* 6.0}: popularity is 10.0, author_influence is 6.0, the weighted sum is
\* 8.025 (1605 / 200) and final_score is 8.03 or 8.02, one of the two
\* hundredths the sum lies between.
C15_ExampleOne ==
    \A i \in 1..Len(calls) :
        /\ Returned(i) /\ SourceIs(Src_github)
        /\ item.stars.t = "int" /\ item.stars.n >= 160000
        /\ ~OrgOccurs(<<Lower(item.url.s),
                        IF item.description.t = "str"
                        THEN Lower(item.description.s) ELSE <<>> >>)
        /\ llm = Bundle([technical_innovation |-> 15, application_value |-> 19,
                         readability |-> 17, experimental_thoroughness |-> 12])
        => /\ ResultOf(i).individual_scores["popularity"] = Whole(10)
           /\ ResultOf(i).individual_scores["author_influence"] = Whole(6)
           /\ ExactSum(ResultOf(i).individual_scores, DOMAIN weights) = 1605
           /\ ResultOf(i).final_score \in {802, 803}

\* the example was scored: the binary64 sum lies above the tie, and
\* final_score is 8.03
C15_Witness ==
    /\ Len(calls) >= 1 /\ Returned(1) /\ SourceIs(Src_github)
    /\ item.stars = PyInt(MaxStars) /\ item.url = PyStr(Url_plain)
    /\ item.description = PyAbsent
    /\ llm = ExampleBundle
    /\ ResultOf(1).final_score = 803

----------------------------------------------------------------------------
(* one ComprehensiveScorer shared by concurrent invocations of              *)
(* calculate_comprehensive_score, each stepping through the method's lines *)

MaxThreads == 2

Threads == 1..MaxThreads

\* ComprehensiveScorer.__init__, in a process whose sets iterate in order
Scorer(order) ==
    [weights |-> weights, top_conferences |-> order[1],
     influential_orgs |-> order[2]]

\* the objects an invocation can touch
Loc_weights          == <<"self", 1>>
Loc_influential_orgs == <<"self", 2>>
Loc_top_conferences  == <<"self", 3>>
Loc_item(t)          == <<"item", t>>
Loc_dict(id)         == <<"dict", id>>

\* the calls made concurrently: an item and a bundle each
Job(it, llm_scores) == [item |-> it, llm_scores |-> llm_scores]

Jobs ==
    {Job(Item(PyStr(Src_github), PyInt(MaxStars), PyAbsent, PyAbsent,
              PyStr(Desc_org), PyStr(Url_org), PyAbsent, PyAbsent),
         ExampleBundle),
     Job(Item(PyStr(Src_github), PyInt(0), PyAbsent, PyAbsent, PyAbsent,
              PyStr(Url_plain), PyAbsent, PyAbsent),
         Bundle(<<>>)),
     Job(Item(PyStr(Src_arxiv), PyAbsent, PyStr(Title_venue), PyAbsent,
              PyAbsent, PyAbsent,
              PyList(<<Author_plain, Author_org, Author_org2>>),
              PyList(<<Cat_csSE, Cat_csAI>>)),
         Bundle([readability |-> 17])),
     Job(Item(PyStr(Src_rss), PyAbsent, PyStr(Title_venue), PyAbsent,
              PyAbsent, PyStr(Url_org), PyAbsent, PyAbsent),
         NoneBundle),
     Job(Item(PyStr(Src_github), PyNone, PyAbsent, PyAbsent, PyAbsent,
              PyStr(Url_plain), PyAbsent, PyAbsent),
         ExampleBundle)}

\* d[k] = v
Put(d, k, v) == [x \in DOMAIN d \cup {k} |-> IF x = k THEN v ELSE d[x]]

\* the ScoreResult of an invocation: individual_scores is the scores dict
\* itself, held by identity
HeapResult(scores, final_score, score_breakdown) ==
    [individual_scores |-> scores, final_score |-> final_score,
     score_breakdown |-> score_breakdown]

NoHeapResult == HeapResult(0, 0, NoScores)

\* scores = llm_scores: no new dict, the bundle itself
NewScores_aliases_bundle(t) ==
    [ref |-> frame[t].llm_scores, heap |-> dicts]

\* self.scores = {}: one dict on the scorer, emptied by every invocation
NewScores_on_self(t) ==
    [ref  |-> MaxThreads + 1,
     heap |-> [id \in DOMAIN dicts \cup {MaxThreads + 1} |->
                  IF id = MaxThreads + 1 THEN <<>> ELSE dicts[id]]]

\* scores = {}: a new, empty dict of the invocation's own
NewScores(t) ==
    [ref  |-> MaxThreads + t,
     heap |-> [id \in DOMAIN dicts \cup {MaxThreads + t} |->
                  IF id = MaxThreads + t THEN <<>> ELSE dicts[id]]]

SharedInit ==
    /\ \E order \in SetOrders : self = Scorer(order)
    /\ built = self
    /\ \E jobs \in [Threads -> Jobs] :
          /\ items = [t \in Threads |-> jobs[t].item]
          /\ dicts = [t \in {u \in Threads : jobs[u].llm_scores.t = "dict"} |->
                         jobs[t].llm_scores.d]
          /\ frame = [t \in Threads |->
                [pc         |-> "l59",
                 llm_scores |-> IF jobs[t].llm_scores.t = "dict" THEN t ELSE 0,
                 scores     |-> 0,
                 final      |-> FloatZero,
                 result     |-> Return(NoHeapResult),
                 given      |-> jobs[t],
                 alone      |-> calculate_comprehensive_score(
                                    jobs[t].item, jobs[t].llm_scores,
                                    self.top_conferences,
                                    self.influential_orgs)]]
    /\ reads = [t \in Threads |-> {}]
    /\ writes = [t \in Threads |-> {}]
    /\ OneIdle
    /\ BatchIdle
    /\ ReportIdle
    /\ CleanerIdle
    /\ RunnerIdle

\* invocation t moves to frame f, the dicts become d, and it has read the
\* objects r and written the objects w
Step(t, f, d, r, w) ==
    /\ frame' = [frame EXCEPT ![t] = f]
    /\ dicts' = d
    /\ reads' = [reads EXCEPT ![t] = @ \cup r]
    /\ writes' = [writes EXCEPT ![t] = @ \cup w]
    /\ UNCHANGED <<self, built, items, notShared>>

\* the invocation ends with the exception e
Raised(t, e) ==
    [frame[t] EXCEPT !.pc = "raised", !.result = Raise(e, NoHeapResult)]

\* scores = {}
Line59(t) ==
    /\ frame[t].pc = "l59"
    /\ LET n == NewScores(t)
       IN  Step(t, [frame[t] EXCEPT !.pc = "l62", !.scores = n.ref],
                n.heap, {}, {Loc_dict(n.ref)})

\* scores['popularity'] = self._calculate_popularity_score(item)
Line62(t) ==
    /\ frame[t].pc = "l62"
    /\ LET f == frame[t]
           p == _calculate_popularity_score(items[t], self.top_conferences)
           r == {Loc_item(t)}
                \cup (IF items[t].source = PyStr(Src_arxiv)
                      THEN {Loc_top_conferences} ELSE {})
       IN  IF p.exc # ""
           THEN Step(t, Raised(t, p.exc), dicts, r, {})
           ELSE Step(t, [f EXCEPT !.pc = "l65"],
                     [dicts EXCEPT ![f.scores] = Put(@, "popularity", p.v)],
                     r, {Loc_dict(f.scores)})

\* the four lines scores[key] = llm_scores.get(key, 5.0), in order
GetLines ==
    <<[pc |-> "l65", key |-> "technical_innovation", to |-> "l66"],
      [pc |-> "l66", key |-> "application_value", to |-> "l67"],
      [pc |-> "l67", key |-> "readability", to |-> "l68"],
      [pc |-> "l68", key |-> "experimental_thoroughness", to |-> "l71"]>>

Line65_68(t) ==
    \E n \in 1..Len(GetLines) :
        /\ frame[t].pc = GetLines[n].pc
        /\ LET f == frame[t]
               key == GetLines[n].key
           IN  IF f.llm_scores = 0
               THEN Step(t, Raised(t, "AttributeError"), dicts, {}, {})
               ELSE Step(t, [f EXCEPT !.pc = GetLines[n].to],
                         [dicts EXCEPT ![f.scores] =
                             Put(@, key,
                                 IF key \in DOMAIN dicts[f.llm_scores]
                                 THEN dicts[f.llm_scores][key] ELSE Whole(5))],
                         {Loc_dict(f.llm_scores)}, {Loc_dict(f.scores)})

\* scores['author_influence'] = self._calculate_author_influence_score(item)
Line71(t) ==
    /\ frame[t].pc = "l71"
    /\ LET f == frame[t]
           a == _calculate_author_influence_score(items[t],
                                                  self.influential_orgs)
           r == {Loc_item(t)}
                \cup (IF items[t].source \in {PyStr(Src_arxiv), PyStr(Src_github)}
                      THEN {Loc_influential_orgs} ELSE {})
       IN  IF a.exc # ""
           THEN Step(t, Raised(t, a.exc), dicts, r, {})
           ELSE Step(t, [f EXCEPT !.pc = "l74"],
                     [dicts EXCEPT ![f.scores] = Put(@, "author_influence", a.v)],
                     r, {Loc_dict(f.scores)})

\* final_score = sum(scores[key] * self.weights[key] for key in ...)
Line74(t) ==
    /\ frame[t].pc = "l74"
    /\ LET f == frame[t]
           scores == dicts[f.scores]
           r == {Loc_dict(f.scores), Loc_weights}
       IN  IF ~(DOMAIN self.weights \subseteq DOMAIN scores)
           THEN Step(t, Raised(t, "KeyError"), dicts, r, {})
           ELSE Step(t, [f EXCEPT !.pc = "l76",
                                  !.final = SumInOrder(
                                      Products(scores, self.weights),
                                      Len(WeightKeys))],
                     dicts, r, {})

\* return {'individual_scores': scores, 'final_score': round(final_score, 2),
\*         'score_breakdown': {k: round(scores[k] * self.weights[k], 2) ...}}
Line76_80(t) ==
    /\ frame[t].pc = "l76"
    /\ LET f == frame[t]
           scores == dicts[f.scores]
           r == {Loc_dict(f.scores), Loc_weights}
       IN  IF ~(DOMAIN self.weights \subseteq DOMAIN scores)
           THEN Step(t, Raised(t, "KeyError"), dicts, r, {})
           ELSE LET products == Products(scores, self.weights)
                IN  Step(t, [f EXCEPT
                                !.pc = "done",
                                !.result = Return(HeapResult(
                                    f.scores, Round2(f.final),
                                    [k \in DOMAIN self.weights |->
                                        Round2(products[k])]))],
                         dicts, r, {})

SharedNext ==
    \E t \in Threads :
        \/ Line59(t)
        \/ Line62(t)
        \/ Line65_68(t)
        \/ Line71(t)
        \/ Line74(t)
        \/ Line76_80(t)

SharedSpec == SharedInit /\ [][SharedNext]_vars

\* invocation t has ended
Ended(t) == frame[t].pc \in {"done", "raised"}

\* C16: calculate_comprehensive_score leaves the item and the bundle it was
\* given as they were, and the scorer's weights, influential_orgs and
\* top_conferences as __init__ left them; the individual_scores it returns
\* is a dict of its own, not the bundle (nor any dict alive before the call).
C16_ArgumentsAndTablesUnchanged ==
    /\ self = built
    /\ \A t \in Threads :
          /\ items[t] = frame[t].given.item
          /\ frame[t].llm_scores # 0 =>
                dicts[frame[t].llm_scores] = frame[t].given.llm_scores.d
          /\ frame[t].pc = "done" =>
                /\ frame[t].result.v.individual_scores
                       \notin {frame[u].llm_scores : u \in Threads}
                /\ DOMAIN dicts[frame[t].result.v.individual_scores]
                       = DOMAIN weights

\* an invocation given a bundle of one key returned six scores, the bundle
\* still holding its one key
C16_Witness ==
    \E t \in Threads :
        /\ frame[t].pc = "done"
        /\ frame[t].llm_scores # 0
        /\ DOMAIN dicts[frame[t].llm_scores] = {"readability"}
        /\ dicts[frame[t].result.v.individual_scores]["readability"] = 17

\* C17: under any interleaving of the invocations on the shared scorer,
\* every invocation ends as it ends when run alone (the same ScoreResult, or
\* the same error), and no invocation writes an object another invocation
\* reads or writes.
C17_InterleavingsAgree ==
    /\ \A t \in Threads :
          Ended(t) =>
             /\ frame[t].result.exc = frame[t].alone.exc
             /\ frame[t].pc = "done" =>
                   /\ dicts[frame[t].result.v.individual_scores]
                          = frame[t].alone.v.individual_scores
                   /\ frame[t].result.v.final_score
                          = frame[t].alone.v.final_score
                   /\ frame[t].result.v.score_breakdown
                          = frame[t].alone.v.score_breakdown
    /\ \A t, u \in Threads :
          t # u => writes[t] \cap (reads[u] \cup writes[u]) = {}

\* one invocation returned while another was between its lines
C17_Witness ==
    \E t, u \in Threads :
        /\ frame[t].pc = "done" /\ frame[t].given.llm_scores = ExampleBundle
        /\ frame[u].pc = "l68"
        /\ writes[u] # {}

----------------------------------------------------------------------------
(* GPTSummarizer.summarize_items: one pass over a list of items *)

MaxBatch == 2

\* the items of a pass: a paper and a repository as the collectors deliver
\* them, a paper whose description is a number, a repository whose stars
\* are None
BatchItems ==
    {Item(PyStr(Src_arxiv), PyAbsent, PyStr(Title_venue), PyStr(Abstract_venue),
          PyAbsent, PyStr(Url_plain), PyList(<<Author_plain, Author_org>>),
          PyList(<<Cat_csSE, Cat_csAI>>)),
     Item(PyStr(Src_github), PyInt(MaxStars), PyStr(Title_inner), PyAbsent,
          PyStr(Desc_org), PyStr(Url_org), PyAbsent, PyAbsent),
     Item(PyStr(Src_arxiv), PyAbsent, PyStr(Title_inner), PyAbsent,
          PyInt(7), PyStr(Url_plain), PyAbsent, PyAbsent),
     Item(PyStr(Src_github), PyNone, PyStr(Title_inner), PyAbsent,
          PyStr(Desc_org), PyStr(Url_plain), PyAbsent, PyAbsent)}

BatchSizes == {1, 2, 5}

\* for i in range(i, n, batch_size): for item in items[i:i + batch_size]:
\* the (1-based) positions of the items in the order the loops visit them
RECURSIVE VisitFrom(_, _, _)
VisitFrom(i, n, size) ==
    IF i >= n THEN <<>>
    ELSE [k \in 1..(Min(i + size, n) - i) |-> i + k]
         \o VisitFrom(i + size, n, size)

\* an element of the returned list: the summary record, whose original_data
\* is the item (held by its position in the items argument)
Record(summary_record, original_data) ==
    [summary |-> summary_record, original_data |-> original_data]

BatchInit ==
    /\ client \in BOOLEAN
    /\ \E n \in 0..MaxBatch : todo \in [1..n -> BatchItems]
    /\ batch_size \in BatchSizes
    /\ scorer_order \in SetOrders
    /\ pos = 0
    /\ summarized_items = <<>>
    /\ replied = [i \in 1..Len(todo) |-> "none"]
    /\ scored = [i \in 1..Len(todo) |-> 0]
    /\ bpc = "running"
    /\ OneIdle
    /\ SharedIdle
    /\ ReportIdle
    /\ CleanerIdle
    /\ RunnerIdle

\* one turn of the loop of _generate_mock_summaries (no client)
GenerateMockSummary ==
    /\ bpc = "running" /\ ~client /\ pos < Len(todo)
    /\ LET i  == pos + 1
           fb == _create_fallback_summary(todo[i], scorer_order[1],
                                          scorer_order[2])
       IN  /\ scored' = [scored EXCEPT ![i] = @ + 1]
           /\ IF fb.exc # ""
              THEN bpc' = "raised" /\ UNCHANGED summarized_items
              ELSE /\ summarized_items' =
                          Append(summarized_items, Record(fb.v, i))
                   /\ UNCHANGED bpc
    /\ pos' = pos + 1
    /\ UNCHANGED <<client, todo, batch_size, scorer_order, replied,
                   notBatch>>

\* one turn of the inner loop of summarize_items, for each reply of the
\* classifier: the try around _summarize_single_item, 'if summary:', and
\* the except branch
SummarizeItem ==
    /\ bpc = "running" /\ client /\ pos < Len(todo)
    /\ \E kind \in {"json", "not_json", "api_error"},
          scoring_dimensions \in {ExampleBundle, AbsentBundle} :
          LET i   == VisitFrom(0, Len(todo), batch_size)[pos + 1]
              out == _summarize_single_item(
                         todo[i], Reply(kind, scoring_dimensions),
                         scorer_order[1], scorer_order[2])
              fb  == _create_fallback_summary(todo[i], scorer_order[1],
                                              scorer_order[2])
          IN  IF out.exc = ""
              THEN /\ replied' = [replied EXCEPT ![i] = kind]
                   /\ scored' = [scored EXCEPT ![i] =
                                    IF kind = "json" THEN @ + 1 ELSE @]
                   /\ summarized_items' =
                          IF out.v.t = "dict"
                          THEN Append(summarized_items, Record(out.v, i))
                          ELSE summarized_items
                   /\ UNCHANGED bpc
              ELSE /\ replied' = [replied EXCEPT ![i] = "not_called"]
                   /\ scored' = [scored EXCEPT ![i] = @ + 1]
                   /\ IF fb.exc # ""
                      THEN bpc' = "raised" /\ UNCHANGED summarized_items
                      ELSE /\ summarized_items' =
                                  Append(summarized_items, Record(fb.v, i))
                           /\ UNCHANGED bpc
    /\ pos' = pos + 1
    /\ UNCHANGED <<client, todo, batch_size, scorer_order,
                   notBatch>>

\* return summarized_items (or mock_summaries)
ReturnSummaries ==
    /\ bpc = "running" /\ pos = Len(todo)
    /\ bpc' = "returned"
    /\ UNCHANGED <<client, todo, batch_size, scorer_order, pos,
                   summarized_items, replied, scored, notBatch>>

BatchNext ==
    \/ GenerateMockSummary
    \/ SummarizeItem
    \/ ReturnSummaries

BatchSpec == BatchInit /\ [][BatchNext]_vars

\* the record is a fallback record: the four subjective scores are 5.0
IsFallback(rec) ==
    /\ rec.summary.scoring_dimensions = fallback_scoring
    /\ \A k \in SubjectiveKeys :
          rec.summary.comprehensive_scores.individual_scores[k] = Whole(5)

\* C18: summarize_items returns exactly one record per input item, in input
\* order, whatever fails: an item whose classifier call or JSON parsing
\* failed has a fallback record with the four subjective scores at 5.0, and
\* without a client every item has one.
C18_OneRecordPerItem ==
    bpc = "returned" =>
        /\ Len(summarized_items) = Len(todo)
        /\ \A i \in 1..Len(summarized_items) :
              /\ summarized_items[i].original_data = i
              /\ replied[i] \in {"not_json", "api_error", "not_called"} =>
                    IsFallback(summarized_items[i])
              /\ ~client => IsFallback(summarized_items[i])

\* C19: every record summarize_items returns, on the classifier path, the
\* exception-fallback path and the no-client path, holds the item's full
\* ScoreResult in comprehensive_scores and its final_score in final_score,
\* and the pass scores each item exactly once.
C19_RecordsCarryScores ==
    /\ \A n \in 1..Len(summarized_items) :
          LET rec == summarized_items[n].summary
              it  == todo[summarized_items[n].original_data]
          IN  /\ rec.comprehensive_scores =
                     calculate_comprehensive_score(
                         it,
                         IF rec.scoring_dimensions.t = "absent"
                         THEN Bundle(<<>>) ELSE rec.scoring_dimensions,
                         scorer_order[1], scorer_order[2]).v
              /\ rec.final_score = rec.comprehensive_scores.final_score
    /\ bpc = "returned" => \A i \in 1..Len(todo) : scored[i] = 1

----------------------------------------------------------------------------
(* ReportGenerator: the category sections of the Markdown and HTML bodies *)

MaxSummaries == 3

Tag_tool      == <<"t", "o", "o", "l">>
Tag_other     == <<"o", "t", "h", "e", "r">>
Tag_benchmark == <<"b", "e", "n", "c", "h", "m", "a", "r", "k">>

\* a summary record, as far as the reports group and order by it; scores
\* are in hundredths
SummaryOf(source, category_tags, final_score, relevance_score) ==
    [source |-> source, category_tags |-> category_tags,
     final_score |-> final_score, relevance_score |-> relevance_score]

SummaryShapes ==
    {SummaryOf(PyStr(Src_arxiv), PyList(<<Tag_tool>>), PyInt(803), PyInt(400)),
     SummaryOf(PyStr(Src_arxiv), PyList(<<Tag_tool>>), PyInt(500), PyInt(800)),
     SummaryOf(PyStr(Src_arxiv), PyList(<<Tag_tool, Tag_other>>), PyAbsent,
               PyInt(700)),
     SummaryOf(PyStr(Src_arxiv), PyList(<<Tag_tool>>), PyAbsent, PyAbsent),
     SummaryOf(PyStr(Src_arxiv), PyList(<<Tag_tool>>), PyAbsent, PyInt(803)),
     SummaryOf(PyAbsent, PyList(<<Tag_tool>>), PyInt(500), PyAbsent),
     SummaryOf(PyStr(Src_arxiv), PyAbsent, PyInt(500), PyAbsent),
     SummaryOf(PyStr(Src_github), PyList(<<>>), PyInt(803), PyInt(700)),
     SummaryOf(PyStr(Src_github), PyList(<<Tag_benchmark>>), PyInt(500),
               PyInt(700)),
     SummaryOf(PyStr(Src_rss), PyList(<<Tag_tool>>), PyInt(803), PyInt(700))}

\* the code point order of two lower-case letters
Ord(c) == CHOOSE n \in 1..Len(LowerCase) : LowerCase[n] = c

\* a < b for two str of lower-case letters
RECURSIVE StrLess(_, _)
StrLess(a, b) ==
    IF b = <<>> THEN FALSE
    ELSE IF a = <<>> THEN TRUE
    ELSE IF Head(a) # Head(b) THEN Ord(Head(a)) < Ord(Head(b))
    ELSE StrLess(Tail(a), Tail(b))

\* sorted(categories.keys())
RECURSIVE SortedKeys(_)
SortedKeys(keys) ==
    IF keys = {} THEN <<>>
    ELSE LET least == CHOOSE k \in keys :
                          \A other \in keys \ {k} : StrLess(k, other)
         IN  <<least>> \o SortedKeys(keys \ {least})

\* sources[source].append(summary), for a source among the keys of sources:
\* the summaries of the source, by position, in the order of the list
SourceItems(sums, source_name) ==
    SelectSeq([i \in 1..Len(sums) |-> i],
              LAMBDA i : Get(sums[i], "source", PyStr(Src_unknown))
                             = PyStr(source_name))

\* the same with the last tag for the first
MainTag_last(x) ==
    LET tags == Get(x, "category_tags", PyList(<<Tag_other>>))
    IN  IF tags.l # <<>> THEN tags.l[Len(tags.l)] ELSE Tag_other

\* tags = item.get("category_tags", ["other"]); tags[0] if tags else "other"
MainTag(x) ==
    LET tags == Get(x, "category_tags", PyList(<<Tag_other>>))
    IN  IF tags.l # <<>> THEN tags.l[1] ELSE Tag_other

\* lambda x: x.get("final_score", x.get("relevance_score", 0))
SortKey(x) == Get(x, "final_score", Get(x, "relevance_score", PyInt(0))).n

\* the same sort as an ascending sort read backwards: equal keys come out
\* in the reverse of the order they had
RECURSIVE SortedReverse_backwards(_, _)
SortedReverse_backwards(sums, seq) ==
    IF seq = <<>> THEN <<>>
    ELSE LET n    == Len(seq)
             rest == SortedReverse_backwards(sums, SubSeq(seq, 1, n - 1))
             x    == seq[n]
             keep == SelectSeq(rest, LAMBDA i :
                                   SortKey(sums[i]) > SortKey(sums[x]))
             move == SelectSeq(rest, LAMBDA i :
                                   SortKey(sums[i]) <= SortKey(sums[x]))
         IN  keep \o <<x>> \o move

\* the same sort without reverse=True: ascending, equal keys in list order
RECURSIVE SortedReverse_ascending(_, _)
SortedReverse_ascending(sums, seq) ==
    IF seq = <<>> THEN <<>>
    ELSE LET n    == Len(seq)
             rest == SortedReverse_ascending(sums, SubSeq(seq, 1, n - 1))
             x    == seq[n]
             keep == SelectSeq(rest, LAMBDA i :
                                   SortKey(sums[i]) <= SortKey(sums[x]))
             move == SelectSeq(rest, LAMBDA i :
                                   SortKey(sums[i]) > SortKey(sums[x]))
         IN  keep \o <<x>> \o move

\* sorted(category_items, key=..., reverse=True): descending by key, items
\* of equal key in the order they had (the sort is stable)
RECURSIVE SortedReverse(_, _)
SortedReverse(sums, seq) ==
    IF seq = <<>> THEN <<>>
    ELSE LET n    == Len(seq)
             rest == SortedReverse(sums, SubSeq(seq, 1, n - 1))
             x    == seq[n]
             keep == SelectSeq(rest, LAMBDA i :
                                   SortKey(sums[i]) >= SortKey(sums[x]))
             move == SelectSeq(rest, LAMBDA i :
                                   SortKey(sums[i]) < SortKey(sums[x]))
         IN  keep \o <<x>> \o move

\* the category sections of one source: for category in sorted(categories):
\* the heading, then the items sorted
RECURSIVE CategorySections(_, _, _, _)
CategorySections(sums, source_name, its, cats) ==
    IF cats = <<>> THEN <<>>
    ELSE LET category_items ==
                 SelectSeq(its, LAMBDA i : MainTag(sums[i]) = Head(cats))
         IN  <<[source |-> source_name, category |-> Head(cats),
                items |-> SortedReverse(sums, category_items)]>>
             \o CategorySections(sums, source_name, its, Tail(cats))

\* for source_name, items in sources.items(): if not items: continue; ...
SourceSections(sums, source_name) ==
    LET its == SourceItems(sums, source_name)
    IN  CategorySections(sums, source_name, its,
            SortedKeys({MainTag(sums[its[n]]) : n \in 1..Len(its)}))

\* sources = {"arxiv": [], "github": []}: a dict iterates in insertion order
_build_markdown_content(sums) ==
    SourceSections(sums, Src_arxiv) \o SourceSections(sums, Src_github)

_build_html_content(sums) ==
    SourceSections(sums, Src_arxiv) \o SourceSections(sums, Src_github)

\* ReportGenerator._get_source_counts: for every source that occurs, with
\* "unknown" for a summary that has none, the number of its summaries
_get_source_counts(sums) ==
    LET source(i) == Get(sums[i], "source", PyStr(Src_unknown))
    IN  [s \in {source(i) : i \in 1..Len(sums)}
            |-> Cardinality({i \in 1..Len(sums) : source(i) = s})]

ReportInit ==
    /\ \E n \in 0..MaxSummaries : summaries \in [1..n -> SummaryShapes]
    /\ md_sections = <<>>
    /\ html_sections = <<>>
    /\ md_head = <<>>
    /\ html_head = <<>>
    /\ rpc = "markdown"
    /\ OneIdle
    /\ SharedIdle
    /\ BatchIdle
    /\ CleanerIdle
    /\ RunnerIdle

\* self._generate_markdown_report(summaries, md_path, date_str): the body's
\* sections, and its Total Items and Sources lines
GenerateMarkdownReport ==
    /\ rpc = "markdown"
    /\ md_sections' = _build_markdown_content(summaries)
    /\ md_head' = [total_items |-> Len(summaries),
                   sources |-> _get_source_counts(summaries)]
    /\ rpc' = "html"
    /\ UNCHANGED <<summaries, html_sections, html_head, notReport>>

\* self._generate_html_report(summaries, html_path, date_str): the body's
\* sections, and its Total Items and Sources paragraphs
GenerateHtmlReport ==
    /\ rpc = "html"
    /\ html_sections' = _build_html_content(summaries)
    /\ html_head' = [total_items |-> Len(summaries),
                     sources |-> _get_source_counts(summaries)]
    /\ rpc' = "done"
    /\ UNCHANGED <<summaries, md_sections, md_head, notReport>>

ReportNext ==
    \/ GenerateMarkdownReport
    \/ GenerateHtmlReport

ReportSpec == ReportInit /\ [][ReportNext]_vars

\* the key the reports are to be ordered by: final_score, else
\* relevance_score, else 0
KeyOf(x) ==
    IF x.final_score.t # "absent" THEN x.final_score.n
    ELSE IF x.relevance_score.t # "absent" THEN x.relevance_score.n
    ELSE 0

\* the items of every section are in non-increasing order of their keys
NonIncreasing(sections) ==
    \A n \in 1..Len(sections) :
        \A j \in 1..(Len(sections[n].items) - 1) :
            KeyOf(summaries[sections[n].items[j]])
                >= KeyOf(summaries[sections[n].items[j + 1]])

\* C20: in the Markdown and in the HTML report the items of each category
\* section appear in non-increasing order of their sort key: final_score,
\* for an item without final_score its relevance_score, 0 with neither.
C20_SectionsSortedDescending ==
    /\ NonIncreasing(md_sections)
    /\ NonIncreasing(html_sections)

\* both reports hold a section of three items in another order than the
\* list's, one of them sorted by its relevance_score
C20_Witness ==
    /\ rpc = "done"
    /\ md_sections # <<>> /\ html_sections = md_sections
    /\ Len(md_sections[1].items) = 3
    /\ md_sections[1].items[1] > md_sections[1].items[2]
    /\ \E j \in 1..3 :
          /\ summaries[md_sections[1].items[j]].final_score.t = "absent"
          /\ summaries[md_sections[1].items[j]].relevance_score.t = "int"

\* C26: in the Markdown body and in the HTML body every summary whose
\* source is 'arxiv' or 'github' appears exactly once, in the section of
\* its source and of its first category tag ('other' with no tags); a
\* summary of any other source appears in no section, yet Total Items
\* counts every summary and the source counts count it under its source.
C26_EverySummaryOnceInItsSection ==
    LET All == 1..Len(summaries)
        SourceOf(i) == IF summaries[i].source.t = "absent" THEN PyStr(Src_unknown)
                       ELSE summaries[i].source
        FirstTag(i) ==
            IF summaries[i].category_tags.t = "absent" THEN Tag_other
            ELSE IF summaries[i].category_tags.l = <<>> THEN Tag_other
            ELSE Head(summaries[i].category_tags.l)
        Places(sections, i) ==
            {<<n, j>> \in (1..Len(sections)) \X All :
                j <= Len(sections[n].items) /\ sections[n].items[j] = i}
        Placed(sections) ==
            \A i \in All :
                IF SourceOf(i) \in {PyStr(Src_arxiv), PyStr(Src_github)}
                THEN /\ Cardinality(Places(sections, i)) = 1
                     /\ \A p \in Places(sections, i) :
                           /\ PyStr(sections[p[1]].source) = SourceOf(i)
                           /\ sections[p[1]].category = FirstTag(i)
                ELSE Places(sections, i) = {}
        Counted(head) ==
            /\ head.total_items = Len(summaries)
            /\ \A i \in All :
                  /\ SourceOf(i) \in DOMAIN head.sources
                  /\ head.sources[SourceOf(i)]
                         = Cardinality({k \in All : SourceOf(k) = SourceOf(i)})
    IN  /\ rpc \in {"html", "done"} => Placed(md_sections) /\ Counted(md_head)
        /\ rpc = "done" => Placed(html_sections) /\ Counted(html_head)

\* both bodies written for a paper with two tags, a repository with no tag
\* and a summary from another source, which is counted and in no section
C26_Witness ==
    /\ rpc = "done"
    /\ Len(summaries) = 3
    /\ summaries[1].source = PyStr(Src_rss)
    /\ summaries[2].category_tags = PyList(<<Tag_tool, Tag_other>>)
    /\ summaries[3].category_tags = PyList(<<>>)
    /\ html_head.total_items = 3
    /\ Len(html_sections) = 2
    /\ html_sections[2].category = Tag_other

\* C27: within a section, summaries of equal sort key keep the order they
\* have in the list (the sort is stable), and the Markdown and the HTML
\* report order their items identically.
C27_TiesKeepOrderInBothReports ==
    LET KeyAt(i) ==
            IF summaries[i].final_score.t # "absent"
            THEN summaries[i].final_score.n
            ELSE IF summaries[i].relevance_score.t # "absent"
            THEN summaries[i].relevance_score.n
            ELSE 0
        Stable(sections) ==
            \A n \in 1..Len(sections) :
                \A j, k \in 1..Len(sections[n].items) :
                    (j < k /\ KeyAt(sections[n].items[j])
                                  = KeyAt(sections[n].items[k]))
                        => sections[n].items[j] < sections[n].items[k]
    IN  /\ rpc \in {"html", "done"} => Stable(md_sections)
        /\ rpc = "done" => Stable(html_sections) /\ html_sections = md_sections

\* both reports hold a section where a summary scored 8.03 by relevance
\* precedes one scored 8.03 by final_score that follows it in the list, both
\* ahead of a lower-scored one that comes first in the list
C27_Witness ==
    /\ rpc = "done"
    /\ Len(summaries) = 3
    /\ summaries[1].final_score = PyInt(500)
    /\ summaries[2].final_score.t = "absent"
    /\ summaries[2].relevance_score = PyInt(803)
    /\ summaries[3].final_score = PyInt(803)
    /\ Len(html_sections) = 1
    /\ html_sections[1].items = <<2, 3, 1>>
    /\ md_sections = html_sections

----------------------------------------------------------------------------
(* DataCleaner: the text, date and URL conversions *)

\* the longest data_list, and the calls made on one cleaner
MaxList == 2
MaxCleanCalls == 2

\* the characters \s matches and str.strip() removes, of those in use
Whitespace == {" ", "\t", "\n", "\r"}

\* str.strip()
Strip(s) ==
    LET RECURSIVE LStrip(_)
        LStrip(q) == IF q # <<>> /\ Head(q) \in Whitespace THEN LStrip(Tail(q))
                     ELSE q
    IN  Reverse(LStrip(Reverse(LStrip(s))))

\* DataCleaner._clean_text: a text that is not a string has no strip()
_clean_text(text) ==
    LET \* the rest of q after its leading run of characters in chars
        RECURSIVE DropRun(_, _)
        DropRun(q, chars) ==
            IF q # <<>> /\ Head(q) \in chars THEN DropRun(Tail(q), chars)
            ELSE q
        \* re.sub(r'[chars]+', by, q)
        RECURSIVE SubRuns(_, _, _)
        SubRuns(q, chars, by) ==
            IF q = <<>> THEN <<>>
            ELSE IF Head(q) \in chars
                 THEN by \o SubRuns(DropRun(q, chars), chars, by)
                 ELSE <<Head(q)>> \o SubRuns(Tail(q), chars, by)
        \* the characters \w matches, of those in use
        IsWord(c) ==
            \/ \E k \in 1..26 : c = LowerCase[k] \/ c = UpperCase[k]
            \/ c \in {"0", "1", "2", "3", "4", "5", "6", "7", "8", "9", "_"}
        RECURSIVE DropWord(_)
        DropWord(q) ==
            IF q # <<>> /\ IsWord(Head(q)) THEN DropWord(Tail(q)) ELSE q
        \* whether r'\s*\\\w+\s*' matches at the start of q: after the
        \* whitespace there, a backslash and a word character
        LatexAt(q) ==
            LET t == DropRun(q, Whitespace)
            IN  Len(t) >= 2 /\ t[1] = "\\" /\ IsWord(t[2])
        \* re.sub(r'\s*\\\w+\s*', ' ', q)
        RECURSIVE SubLatex(_)
        SubLatex(q) ==
            IF q = <<>> THEN <<>>
            ELSE IF LatexAt(q)
                 THEN <<" ">> \o SubLatex(DropRun(
                          DropWord(Tail(DropRun(q, Whitespace))), Whitespace))
                 ELSE <<Head(q)>> \o SubLatex(Tail(q))
        \* the rest of q from its first '$' on
        RECURSIVE ToDollar(_)
        ToDollar(q) ==
            IF q # <<>> /\ Head(q) # "$" THEN ToDollar(Tail(q)) ELSE q
        \* re.sub(r'\$[^$]*\$', '[MATH]', q)
        RECURSIVE SubMath(_)
        SubMath(q) ==
            IF q = <<>> THEN <<>>
            ELSE IF Head(q) = "$" /\ ToDollar(Tail(q)) # <<>>
                 THEN <<"[", "M", "A", "T", "H", "]">>
                          \o SubMath(Tail(ToDollar(Tail(q))))
                 ELSE <<Head(q)>> \o SubMath(Tail(q))
    IN  IF ~Truthy(text) THEN Return(PyStr(<<>>))
        ELSE IF text.t # "str" THEN Raise("AttributeError", PyNone)
        ELSE LET spaced   == SubRuns(Strip(text.s), Whitespace, <<" ">>)
                 newlines == SubRuns(spaced, {"\n"}, <<"\n">>)
                 tabs     == SubRuns(newlines, {"\t"}, <<" ">>)
             IN  Return(PyStr(Strip(SubMath(SubLatex(tabs)))))

\* DataCleaner._normalize_date. The dates in use are written zero-padded
\* with whole seconds, as both fetchers write them; any other text in use is
\* one neither parser accepts.
\*   'T' in it: datetime.fromisoformat of the text with +00:00 for each Z,
\*   then isoformat, which writes a zero offset as +00:00 whatever its sign;
\*   otherwise strptime with '%Y-%m-%d', then with '%Y-%m-%d %H:%M:%S';
\*   what cannot be parsed is returned as it came, and so is a value that
\*   is not a string: the parsing raises and the except clause returns it.
_normalize_date(date_str) ==
    LET Digits == <<"0", "1", "2", "3", "4", "5", "6", "7", "8", "9">>
        RECURSIVE Number(_)
        Number(q) ==
            IF q = <<>> THEN 0
            ELSE 10 * Number(SubSeq(q, 1, Len(q) - 1))
                     + (CHOOSE k \in 1..10 : q[Len(q)] = Digits[k]) - 1
        AllDigits(q) ==
            \A i \in 1..Len(q) : \E k \in 1..10 : q[i] = Digits[k]
        DaysIn(year, month) ==
            IF month = 2
            THEN IF year % 4 = 0 /\ (year % 100 # 0 \/ year % 400 = 0)
                 THEN 29 ELSE 28
            ELSE IF month \in {4, 6, 9, 11} THEN 30 ELSE 31
        \* a calendar date written YYYY-MM-DD
        IsDate(q) ==
            /\ Len(q) = 10 /\ q[5] = "-" /\ q[8] = "-"
            /\ AllDigits(SubSeq(q, 1, 4) \o SubSeq(q, 6, 7) \o SubSeq(q, 9, 10))
            /\ Number(SubSeq(q, 1, 4)) >= 1
            /\ Number(SubSeq(q, 6, 7)) \in 1..12
            /\ Number(SubSeq(q, 9, 10))
                   \in 1..DaysIn(Number(SubSeq(q, 1, 4)),
                                 Number(SubSeq(q, 6, 7)))
        \* a time of day written HH:MM:SS
        IsTime(q) ==
            /\ Len(q) = 8 /\ q[3] = ":" /\ q[6] = ":"
            /\ AllDigits(SubSeq(q, 1, 2) \o SubSeq(q, 4, 5) \o SubSeq(q, 7, 8))
            /\ Number(SubSeq(q, 1, 2)) < 24
            /\ Number(SubSeq(q, 4, 5)) < 60
            /\ Number(SubSeq(q, 7, 8)) < 60
        \* a UTC offset written +HH:MM or -HH:MM
        IsOffset(q) ==
            /\ Len(q) = 6 /\ q[1] \in {"+", "-"} /\ q[4] = ":"
            /\ AllDigits(SubSeq(q, 2, 3) \o SubSeq(q, 5, 6))
            /\ Number(SubSeq(q, 2, 3)) < 24
            /\ Number(SubSeq(q, 5, 6)) < 60
        Utc == <<"+", "0", "0", ":", "0", "0">>
        \* str.replace('Z', '+00:00')
        RECURSIVE ReplaceZ(_)
        ReplaceZ(q) ==
            IF q = <<>> THEN <<>>
            ELSE (IF Head(q) = "Z" THEN Utc ELSE <<Head(q)>>)
                     \o ReplaceZ(Tail(q))
        s      == date_str.s
        iso    == ReplaceZ(s)
        offset == SubSeq(iso, 20, Len(iso))
    IN  IF date_str.t # "str" THEN date_str
        ELSE IF \E i \in 1..Len(s) : s[i] = "T"
        THEN IF /\ Len(iso) \in {19, 25}
                /\ IsDate(SubSeq(iso, 1, 10))
                /\ iso[11] = "T"
                /\ IsTime(SubSeq(iso, 12, 19))
                /\ Len(iso) = 25 => IsOffset(offset)
             THEN IF offset = <<"-", "0", "0", ":", "0", "0">>
                  THEN PyStr(SubSeq(iso, 1, 19) \o Utc)
                  ELSE PyStr(iso)
             ELSE date_str
        ELSE IF IsDate(s)
        THEN PyStr(s \o <<"T", "0", "0", ":", "0", "0", ":", "0", "0">>)
        ELSE IF /\ Len(s) = 19
                /\ IsDate(SubSeq(s, 1, 10))
                /\ s[11] = " "
                /\ IsTime(SubSeq(s, 12, 19))
        THEN PyStr(SubSeq(s, 1, 10) \o <<"T">> \o SubSeq(s, 12, 19))
        ELSE date_str

\* DataCleaner._clean_url: a URL that is not a string has no startswith()
_clean_url(url) ==
    LET StartsWith(q, prefix) ==
            Len(q) >= Len(prefix) /\ SubSeq(q, 1, Len(prefix)) = prefix
        https == <<"h", "t", "t", "p", "s", ":", "/", "/">>
    IN  IF ~Truthy(url) THEN Return(PyStr(<<>>))
        ELSE IF url.t # "str" THEN Raise("AttributeError", PyNone)
        ELSE IF \/ StartsWith(url.s, <<"h", "t", "t", "p", ":", "/", "/">>)
                \/ StartsWith(url.s, https)
             THEN Return(PyStr(Strip(url.s)))
             ELSE Return(PyStr(Strip(https \o url.s)))

----------------------------------------------------------------------------
(* DataCleaner: items, the identity hash and clean_and_deduplicate *)

\* a fetched record: the fields the cleaner reads, each a value or absent
RawItem(source, title, description, abstract, published, created_at, updated_at, url, pdf_url, authors, full_name) ==
    [source |-> source, title |-> title, description |-> description,
     abstract |-> abstract, published |-> published,
     created_at |-> created_at, updated_at |-> updated_at, url |-> url,
     pdf_url |-> pdf_url, authors |-> authors, full_name |-> full_name]

\* DataCleaner._clean_item: the copy with its texts, dates and URLs cleaned,
\* or the exception of the first field that cannot be
_clean_item(it) ==
    LET text(v) == IF v.t = "absent" THEN Return(v) ELSE _clean_text(v)
        date(v) == IF v.t # "absent" /\ Truthy(v) THEN _normalize_date(v)
                   ELSE v
        link(v) == IF v.t = "absent" THEN Return(v) ELSE _clean_url(v)
        \* the copy, given the outcomes of cleaning the three texts, the
        \* three dates and the two URLs
        Copy(texts, dates, links) ==
            LET raised == SelectSeq(texts \o links, LAMBDA o : o.exc # "")
            IN  IF raised # <<>> THEN Raise(raised[1].exc, it)
                ELSE Return([it EXCEPT !.title = texts[1].v,
                                       !.description = texts[2].v,
                                       !.abstract = texts[3].v,
                                       !.published = dates[1],
                                       !.created_at = dates[2],
                                       !.updated_at = dates[3],
                                       !.url = links[1].v,
                                       !.pdf_url = links[2].v])
    IN  Copy([k \in 1..3 |->
                 text(<<it.title, it.description, it.abstract>>[k])],
             [k \in 1..3 |->
                 date(<<it.published, it.created_at, it.updated_at>>[k])],
             [k \in 1..2 |-> link(<<it.url, it.pdf_url>>[k])])

\* DataCleaner._generate_content_hash
_generate_content_hash(it) ==
    LET \* str(n) for n >= 0
        RECURSIVE Decimal(_)
        Decimal(n) ==
            (IF n < 10 THEN <<>> ELSE Decimal(n \div 10))
                \o <<<<"0", "1", "2", "3", "4", "5", "6", "7", "8", "9">>[
                         (n % 10) + 1]>>
        \* repr of a list of strings that hold no quote and no backslash
        RECURSIVE ReprItems(_)
        ReprItems(l) ==
            IF l = <<>> THEN <<>>
            ELSE <<"'">> \o Head(l) \o <<"'">>
                     \o (IF Len(l) = 1 THEN <<>> ELSE <<",", " ">>)
                     \o ReprItems(Tail(l))
        \* what an f-string writes for a value
        Format(v) ==
            CASE v.t = "str"  -> v.s
              [] v.t = "int"  -> Decimal(v.n)
              [] v.t = "list" -> <<"[">> \o ReprItems(v.l) \o <<"]">>
              [] OTHER        -> <<"N", "o", "n", "e">>
        \* hashlib.md5(...).hexdigest(), tabulated for the contents in use
        md5 == {
        <<<<"C", "o", "d", "e", " ", "G", "e", "n", "_", "[", "'", "A", " ", "B", "'", "]", "_", "2", "0", "2", "4", "-", "0", "2", "-", "2", "9", "T", "1", "2", ":", "0", "0", ":", "0", "0", "+", "0", "0", ":", "0", "0">>,
           "1c32e196c6773616b638f07ffef90b2c">>,
        <<<<"C", "o", "d", "e", " ", "G", "e", "n", "_", "[", "'", "A", " ", "B", "'", ",", " ", "'", "C", "'", "]", "_", "2", "0", "2", "4", "-", "0", "2", "-", "2", "9", "T", "1", "2", ":", "0", "0", ":", "0", "0", "+", "0", "0", ":", "0", "0">>,
           "74aa42f220ae9c907f73d7a194f5abc7">>,
        <<<<"u", "/", "r", "_", "2", "0", "2", "4", "-", "0", "1", "-", "0", "1", "T", "0", "0", ":", "0", "0", ":", "0", "0">>,
           "1c01803787c99cf10efb50fcce4f1c0f">>,
        <<<<"_", "2", "0", "2", "3", "-", "0", "2", "-", "2", "9">>,
           "a8a7d089ad935571a0ce6e735fd71b54">>
        }
        content ==
            IF Get(it, "source", PyNone) = PyStr(Src_arxiv)
            THEN Format(Get(it, "title", PyStr(<<>>))) \o <<"_">>
                     \o Format(Get(it, "authors", PyList(<<>>))) \o <<"_">>
                     \o Format(Get(it, "published", PyStr(<<>>)))
            ELSE Format(Get(it, "full_name", PyStr(<<>>))) \o <<"_">>
                     \o Format(Get(it, "created_at", PyStr(<<>>)))
    IN  (CHOOSE pair \in md5 : pair[1] = content)[2]

\* the records fetched
Fetched ==
    LET
        Title_spaced  == <<" ", " ", "C", "o", "d", "e", " ", "\t", " ", "G", "e", "n", "\n">>
        Title_latex   == <<"C", "o", "d", "e", " ", "\\", "i", "t", " ", "G", "e", "n">>
        Title_clean   == <<"C", "o", "d", "e", " ", "G", "e", "n">>
        Abstract_math == <<"c", "o", "s", "t", " ", "$", "O", "(", "n", ")", "$", "\n", "\n", "p", "e", "r", " ", "\\", "e", "m", "p", "h", "{", "t", "o", "k", "e", "n", "}">>
        Desc_spaced   == <<" ", "a", " ", " ", "b", " ">>
        Date_zulu     == <<"2", "0", "2", "4", "-", "0", "2", "-", "2", "9", "T", "1", "2", ":", "0", "0", ":", "0", "0", "Z">>
        Date_offset   == <<"2", "0", "2", "4", "-", "0", "2", "-", "2", "9", "T", "1", "2", ":", "0", "0", ":", "0", "0", "+", "0", "0", ":", "0", "0">>
        Date_day      == <<"2", "0", "2", "4", "-", "0", "1", "-", "0", "1">>
        Date_seconds  == <<"2", "0", "2", "4", "-", "0", "1", "-", "0", "1", " ", "0", "0", ":", "0", "0", ":", "0", "0">>
        Date_unparsed == <<"2", "0", "2", "3", "-", "0", "2", "-", "2", "9">>
        Url_bare      == <<"a", "r", "x", "i", "v", ".", "o", "r", "g", "/", "a", "b", "s", "/", "1">>
        Url_http      == <<"h", "t", "t", "p", ":", "/", "/", "a", "r", "x", "i", "v", ".", "o", "r", "g", "/", "a", "b", "s", "/", "1">>
        Name_repo     == <<"u", "/", "r">>
    IN  [\* two papers that differ in spacing, markup, date spelling and URL
         Paper_spaced |->
             RawItem(PyStr(Src_arxiv), PyStr(Title_spaced), PyAbsent,
                     PyStr(Abstract_math), PyStr(Date_zulu), PyAbsent,
                     PyAbsent, PyStr(Url_bare), PyStr(<<>>),
                     PyList(<<Author_plain>>), PyAbsent),
         Paper_latex |->
             RawItem(PyStr(Src_arxiv), PyStr(Title_latex), PyAbsent, PyNone,
                     PyStr(Date_offset), PyAbsent, PyStr(Date_day),
                     PyStr(Url_http), PyAbsent, PyList(<<Author_plain>>),
                     PyAbsent),
         \* the same title and date under one more author
         Paper_joint |->
             RawItem(PyStr(Src_arxiv), PyStr(Title_clean), PyAbsent, PyAbsent,
                     PyStr(Date_offset), PyAbsent, PyAbsent, PyAbsent,
                     PyAbsent, PyList(<<Author_plain, <<"C">>>>), PyAbsent),
         \* one repository fetched twice, its creation date spelt two ways
         Repo_day |->
             RawItem(PyStr(Src_github), PyAbsent, PyStr(Desc_spaced),
                     PyAbsent, PyAbsent, PyStr(Date_day), PyAbsent,
                     PyStr(Url_plain), PyAbsent, PyAbsent, PyStr(Name_repo)),
         Repo_seconds |->
             RawItem(PyStr(Src_github), PyAbsent, PyNone, PyAbsent, PyAbsent,
                     PyStr(Date_seconds), PyStr(Date_zulu), PyAbsent,
                     PyAbsent, PyAbsent, PyStr(Name_repo)),
         \* a record with no source and no name, its date no calendar date
         Feed_unnamed |->
             RawItem(PyAbsent, PyStr(Title_clean), PyAbsent, PyAbsent,
                     PyAbsent, PyStr(Date_unparsed), PyAbsent, PyAbsent,
                     PyAbsent, PyAbsent, PyAbsent),
         \* a record whose title is a number
         Repo_numbered |->
             RawItem(PyStr(Src_github), PyInt(7), PyAbsent, PyAbsent,
                     PyAbsent, PyStr(Date_day), PyAbsent, PyAbsent, PyAbsent,
                     PyAbsent, PyStr(<<"m", "/", "x">>))]

RawItems == {Fetched[name] : name \in DOMAIN Fetched}

\* self._clean_item(item) and self._generate_content_hash(cleaned_item) for
\* the records in use, each worked out once
CleanedItem == [it \in RawItems |-> _clean_item(it)]
ContentHash ==
    [it \in {CleanedItem[r].v : r \in {x \in RawItems : CleanedItem[x].exc = ""}}
        |-> _generate_content_hash(it)]

\* the same loop remembering only the hash it added last
RECURSIVE CleanLoop_forgets(_, _, _)
CleanLoop_forgets(rest, seen, out) ==
    LET Check(cleaned_item, item_hash) ==
            IF item_hash \notin seen
            THEN CleanLoop_forgets(Tail(rest), {item_hash},
                                   Append(out, cleaned_item))
            ELSE CleanLoop_forgets(Tail(rest), seen, out)
        Body(cleaned) ==
            IF cleaned.exc # ""
            THEN [exc |-> cleaned.exc, seen |-> seen, out |-> out]
            ELSE Check(cleaned.v, ContentHash[cleaned.v])
    IN  IF rest = <<>> THEN [exc |-> "", seen |-> seen, out |-> out]
        ELSE Body(CleanedItem[Head(rest)])

\* the for loop of clean_and_deduplicate over the rest of data_list, ending
\* mid-way if cleaning an item raises
RECURSIVE CleanLoop(_, _, _)
CleanLoop(rest, seen, out) ==
    LET \* if item_hash not in self.seen_hashes: add it, append the item
        Check(cleaned_item, item_hash) ==
            IF item_hash \notin seen
            THEN CleanLoop(Tail(rest), seen \cup {item_hash},
                           Append(out, cleaned_item))
            ELSE CleanLoop(Tail(rest), seen, out)
        \* the body of the loop, given the outcome of self._clean_item(item)
        Body(cleaned) ==
            IF cleaned.exc # ""
            THEN [exc |-> cleaned.exc, seen |-> seen, out |-> out]
            ELSE Check(cleaned.v, ContentHash[cleaned.v])
    IN  IF rest = <<>> THEN [exc |-> "", seen |-> seen, out |-> out]
        ELSE Body(CleanedItem[Head(rest)])

----------------------------------------------------------------------------
(* DataCleaner: the specification of its calls *)

\* DataCleaner.__init__
CleanerInit ==
    /\ seen_hashes = {}
    /\ data_list = <<>>
    /\ cleaned_data = <<>>
    /\ seen_before = {}
    /\ emitted = <<>>
    /\ cleanings = 0
    /\ cpc = "ready"
    /\ OneIdle
    /\ SharedIdle
    /\ BatchIdle
    /\ ReportIdle
    /\ RunnerIdle

\* DataCleaner.clean_and_deduplicate(data_list): the whole call. A call that
\* raises returns nothing and keeps the hashes it had added.
CleanAndDeduplicate ==
    /\ cpc # "idle"
    /\ cleanings < MaxCleanCalls
    /\ \E arg \in UNION {[1..n -> RawItems] : n \in 0..MaxList} :
          LET loop == CleanLoop(arg, seen_hashes, <<>>)
          IN  /\ data_list' = arg
              /\ seen_before' = seen_hashes
              /\ seen_hashes' = loop.seen
              /\ cleaned_data' = IF loop.exc = "" THEN loop.out ELSE <<>>
              /\ emitted' = IF loop.exc = "" THEN emitted \o loop.out
                            ELSE emitted
              /\ cpc' = IF loop.exc = "" THEN "returned" ELSE "raised"
    /\ cleanings' = cleanings + 1
    /\ UNCHANGED notCleaner

CleanerSpec == CleanerInit /\ [][CleanAndDeduplicate]_vars

\* C21: across the calls of clean_and_deduplicate on one cleaner, no two
\* items returned, by one call or by two, have the same identity hash; the
\* hash of a cleaned arxiv item depends on its title, authors and published
\* only, that of any other item on its full_name and created_at only; a call
\* returns, in the order of its argument, exactly the cleaned items whose
\* hash had not been seen before; and seen_hashes never loses a hash.
C21_EmittedOncePerHash ==
    LET \* the items of the last data_list that could be cleaned, cleaned
        CleanedArgs ==
            {CleanedItem[data_list[i]].v :
                i \in {k \in 1..Len(data_list) :
                          CleanedItem[data_list[k]].exc = ""}}
        IsArxiv(it) == Get(it, "source", PyNone) = PyStr(Src_arxiv)
        \* the cleaned items of data_list from position i on whose hash is
        \* neither in seen nor that of an earlier item, in the list's order
        RECURSIVE UnseenFrom(_, _)
        UnseenFrom(i, seen) ==
            IF i > Len(data_list) THEN <<>>
            ELSE LET c == CleanedItem[data_list[i]].v
                     h == ContentHash[c]
                 IN  IF h \in seen THEN UnseenFrom(i + 1, seen)
                     ELSE <<c>> \o UnseenFrom(i + 1, seen \cup {h})
    IN  /\ \A i, j \in 1..Len(emitted) :
              i # j => ContentHash[emitted[i]] # ContentHash[emitted[j]]
        /\ \A a, b \in CleanedArgs \cup {emitted[i] : i \in 1..Len(emitted)} :
              /\ ( /\ IsArxiv(a) /\ IsArxiv(b)
                   /\ a.title = b.title
                   /\ a.authors = b.authors
                   /\ a.published = b.published )
                     => ContentHash[a] = ContentHash[b]
              /\ ( /\ ~IsArxiv(a) /\ ~IsArxiv(b)
                   /\ a.full_name = b.full_name
                   /\ a.created_at = b.created_at )
                     => ContentHash[a] = ContentHash[b]
        /\ cpc = "returned" => cleaned_data = UnseenFrom(1, seen_before)
        /\ seen_before \subseteq seen_hashes

\* a second call returned one item of two, the other one's hash seen in the
\* first call under another spelling of the same paper
C21_Witness ==
    /\ cleanings = 2
    /\ cpc = "returned"
    /\ data_list = <<Fetched.Paper_latex, Fetched.Paper_joint>>
    /\ Len(cleaned_data) = 1
    /\ cleaned_data[1].authors = Fetched.Paper_joint.authors
    /\ Len(emitted) = 2
    /\ emitted[1] = CleanedItem[Fetched.Paper_spaced].v
    /\ emitted[1] # CleanedItem[Fetched.Paper_latex].v

----------------------------------------------------------------------------
(* AICodeDigestRunner.run_daily_digest, on a runner whose collaborators
   are in place *)

\* entry of run_daily_digest(target_date, dry_run): any configuration, the
\* recipient variable set or not, either value of dry_run
RunnerInit ==
    /\ config \in [arxiv : BOOLEAN, github : BOOLEAN, email : BOOLEAN]
    /\ recipient \in BOOLEAN
    /\ dry_run \in BOOLEAN
    /\ runpc = "fetch"
    /\ raw_data = <<>>
    /\ events = <<>>
    /\ returned = "none"
    /\ exit_code = -1
    /\ OneIdle
    /\ SharedIdle
    /\ BatchIdle
    /\ ReportIdle
    /\ CleanerIdle

\* the same step with both sources in one try: arXiv failing ends the fetch
FetchAllData_one_try ==
    /\ runpc = "fetch"
    /\ \E papers \in {Return(<<>>), Return(<<Fetched.Paper_spaced>>),
                      Return(<<Fetched.Paper_spaced, Fetched.Paper_latex>>),
                      Raise("Exception", <<>>)},
          repos \in {Return(<<>>), Return(<<Fetched.Repo_day>>),
                     Return(<<Fetched.Repo_day, Fetched.Repo_numbered>>),
                     Raise("Exception", <<>>)} :
          LET arxiv_failed == config.arxiv /\ papers.exc # ""
              all_data ==
                  (IF config.arxiv THEN papers.v ELSE <<>>)
                      \o (IF config.github /\ ~arxiv_failed THEN repos.v
                          ELSE <<>>)
          IN  /\ events' =
                     events
                         \o (IF config.arxiv
                             THEN <<[call |-> "fetch_papers", out |-> papers]>>
                             ELSE <<>>)
                         \o (IF config.github /\ ~arxiv_failed
                             THEN <<[call |-> "fetch_repositories",
                                     out |-> repos]>>
                             ELSE <<>>)
              /\ raw_data' = all_data
              /\ runpc' = IF all_data = <<>> THEN "returned" ELSE "clean"
              /\ returned' = IF all_data = <<>> THEN "False" ELSE returned
    /\ UNCHANGED <<config, recipient, dry_run, exit_code, notRunner>>

\* the same step going on to clean when nothing was fetched
FetchAllData_goes_on ==
    /\ runpc = "fetch"
    /\ \E papers \in {Return(<<>>), Return(<<Fetched.Paper_spaced>>),
                      Return(<<Fetched.Paper_spaced, Fetched.Paper_latex>>),
                      Raise("Exception", <<>>)},
          repos \in {Return(<<>>), Return(<<Fetched.Repo_day>>),
                     Return(<<Fetched.Repo_day, Fetched.Repo_numbered>>),
                     Raise("Exception", <<>>)} :
          /\ events' =
                 events
                     \o (IF config.arxiv
                         THEN <<[call |-> "fetch_papers", out |-> papers]>>
                         ELSE <<>>)
                     \o (IF config.github
                         THEN <<[call |-> "fetch_repositories",
                                 out |-> repos]>>
                         ELSE <<>>)
          /\ raw_data' = (IF config.arxiv THEN papers.v ELSE <<>>)
                             \o (IF config.github THEN repos.v ELSE <<>>)
    /\ runpc' = "clean"
    /\ UNCHANGED <<config, recipient, dry_run, returned, exit_code, notRunner>>

\* step 1, the whole of fetch_all_data: each enabled source is fetched in
\* its own try, arXiv first; what a fetcher returns extends all_data, what
\* it raises is logged. No data ends the run with False.
FetchAllData ==
    /\ runpc = "fetch"
    /\ \E papers \in {Return(<<>>), Return(<<Fetched.Paper_spaced>>),
                      Return(<<Fetched.Paper_spaced, Fetched.Paper_latex>>),
                      Raise("Exception", <<>>)},
          repos \in {Return(<<>>), Return(<<Fetched.Repo_day>>),
                     Return(<<Fetched.Repo_day, Fetched.Repo_numbered>>),
                     Raise("Exception", <<>>)} :
          LET all_data ==
                  (IF config.arxiv THEN papers.v ELSE <<>>)
                      \o (IF config.github THEN repos.v ELSE <<>>)
          IN  /\ events' =
                     events
                         \o (IF config.arxiv
                             THEN <<[call |-> "fetch_papers", out |-> papers]>>
                             ELSE <<>>)
                         \o (IF config.github
                             THEN <<[call |-> "fetch_repositories",
                                     out |-> repos]>>
                             ELSE <<>>)
              /\ raw_data' = all_data
              /\ runpc' = IF all_data = <<>> THEN "returned" ELSE "clean"
              /\ returned' = IF all_data = <<>> THEN "False" ELSE returned
    /\ UNCHANGED <<config, recipient, dry_run, exit_code, notRunner>>

\* step 2: self.data_cleaner.clean_and_deduplicate(raw_data), on the
\* cleaner the runner built; what it raises ends the run with False
CleanStep ==
    /\ runpc = "clean"
    /\ LET loop == CleanLoop(raw_data, {}, <<>>)
       IN  /\ events' = Append(events,
                               [call |-> "clean_and_deduplicate",
                                out  |-> IF loop.exc = "" THEN Return(loop.out)
                                         ELSE Raise(loop.exc, <<>>)])
           /\ runpc' = IF loop.exc = "" THEN "summarize" ELSE "returned"
           /\ returned' = IF loop.exc = "" THEN returned ELSE "False"
    /\ UNCHANGED <<config, recipient, dry_run, raw_data, exit_code, notRunner>>

\* step 3: self.summarizer.summarize_items(cleaned_data) returns a summary
\* for every item, for none, or raises
SummarizeStep ==
    /\ runpc = "summarize"
    /\ \E out \in {Return(events[Len(events)].out.v), Return(<<>>),
                   Raise("Exception", <<>>)} :
          /\ events' = Append(events, [call |-> "summarize_items", out |-> out])
          /\ runpc' = IF out.exc = "" THEN "reports" ELSE "returned"
          /\ returned' = IF out.exc = "" THEN returned ELSE "False"
    /\ UNCHANGED <<config, recipient, dry_run, raw_data, exit_code, notRunner>>

\* step 4: self.report_generator.generate_reports(summaries, target_date)
\* returns the files it wrote, or raises
ReportStep ==
    /\ runpc = "reports"
    /\ \E out \in {Return(<<"json", "markdown", "html">>),
                   Raise("Exception", <<>>)} :
          /\ events' = Append(events, [call |-> "generate_reports", out |-> out])
          /\ runpc' = IF out.exc = "" THEN "email" ELSE "returned"
          /\ returned' = IF out.exc = "" THEN returned ELSE "False"
    /\ UNCHANGED <<config, recipient, dry_run, raw_data, exit_code, notRunner>>

\* the same step sending whatever dry_run says
EmailStep_ignores_dry_run ==
    /\ runpc = "email"
    /\ IF config.email
       THEN IF ~recipient
            THEN events' = events /\ returned' = "False"
            ELSE \E out \in {Return(TRUE), Return(FALSE),
                             Raise("Exception", FALSE)} :
                    /\ events' = Append(events, [call |-> "send_daily_digest",
                                                 out |-> out])
                    /\ returned' = IF out = Return(TRUE) THEN "True"
                                   ELSE "False"
       ELSE events' = events /\ returned' = "True"
    /\ runpc' = "returned"
    /\ UNCHANGED <<config, recipient, dry_run, raw_data, exit_code, notRunner>>

\* the same step returning True whatever the send reported
EmailStep_trusts_send ==
    /\ runpc = "email"
    /\ IF ~dry_run /\ config.email
       THEN IF ~recipient
            THEN events' = events /\ returned' = "False"
            ELSE \E out \in {Return(TRUE), Return(FALSE),
                             Raise("Exception", FALSE)} :
                    /\ events' = Append(events, [call |-> "send_daily_digest",
                                                 out |-> out])
                    /\ returned' = IF out.exc = "" THEN "True" ELSE "False"
       ELSE events' = events /\ returned' = "True"
    /\ runpc' = "returned"
    /\ UNCHANGED <<config, recipient, dry_run, raw_data, exit_code, notRunner>>

\* step 5 and the return: unless dry_run is set or email is disabled,
\* send_email_digest, which returns False without sending when the
\* recipient variable is unset or empty and otherwise what
\* email_sender.send_daily_digest returns; a False, and anything raised,
\* makes run_daily_digest return False
EmailStep ==
    /\ runpc = "email"
    /\ IF ~dry_run /\ config.email
       THEN IF ~recipient
            THEN events' = events /\ returned' = "False"
            ELSE \E out \in {Return(TRUE), Return(FALSE),
                             Raise("Exception", FALSE)} :
                    /\ events' = Append(events, [call |-> "send_daily_digest",
                                                 out |-> out])
                    /\ returned' = IF out = Return(TRUE) THEN "True"
                                   ELSE "False"
       ELSE events' = events /\ returned' = "True"
    /\ runpc' = "returned"
    /\ UNCHANGED <<config, recipient, dry_run, raw_data, exit_code, notRunner>>

\* main: exit status 0 if run_daily_digest returned True, 1 otherwise
MainExit ==
    /\ runpc = "returned"
    /\ exit_code' = IF returned = "True" THEN 0 ELSE 1
    /\ runpc' = "exited"
    /\ UNCHANGED <<config, recipient, dry_run, raw_data, events, returned,
                   notRunner>>

RunnerNext ==
    \/ FetchAllData
    \/ CleanStep
    \/ SummarizeStep
    \/ ReportStep
    \/ EmailStep
    \/ MainExit

RunnerSpec == RunnerInit /\ [][RunnerNext]_vars

\* C22: a run with dry_run set never calls the email sender; a run calls it
\* only if dry_run is unset, email is enabled in the configuration and the
\* recipient variable is set, at most once, and only after generate_reports
\* has returned.
C22_EmailOnlyWhenAllowed ==
    LET Sends == {k \in 1..Len(events) : events[k].call = "send_daily_digest"}
    IN  /\ dry_run => Sends = {}
        /\ Sends # {} => ~dry_run /\ config.email /\ recipient
        /\ Cardinality(Sends) <= 1
        /\ \A k \in Sends :
              \E j \in 1..(k - 1) : /\ events[j].call = "generate_reports"
                                    /\ events[j].out.exc = ""

\* a dry run with email enabled and a recipient set went through its five
\* steps and returned True
C22_Witness ==
    /\ dry_run /\ config.email /\ recipient
    /\ runpc = "returned"
    /\ returned = "True"
    /\ events[Len(events)].call = "generate_reports"

\* C23: the collaborators are called in the order fetch, clean and
\* deduplicate, summarize, generate reports, send email, each at most once
\* and each only after the step before it returned; when the fetch brings
\* no item the run ends and no later step is called.
C23_StepsInOrder ==
    LET Rank(call) ==
            CASE call \in {"fetch_papers", "fetch_repositories"} -> 1
              [] call = "clean_and_deduplicate" -> 2
              [] call = "summarize_items" -> 3
              [] call = "generate_reports" -> 4
              [] call = "send_daily_digest" -> 5
        Steps == 1..Len(events)
    IN  /\ \A j, k \in Steps :
              j < k => /\ Rank(events[j].call) <= Rank(events[k].call)
                       /\ events[j].call # events[k].call
        /\ \A k \in Steps :
              Rank(events[k].call) >= 2
                  => \E j \in 1..(k - 1) :
                        /\ Rank(events[j].call) = Rank(events[k].call) - 1
                        /\ events[j].out.exc = ""
        /\ (runpc # "fetch" /\ raw_data = <<>>)
              => /\ runpc \in {"returned", "exited"}
                 /\ \A k \in Steps : Rank(events[k].call) = 1

\* both sources were fetched and every later step was called, in order
C23_Witness ==
    /\ Len(events) = 6
    /\ [k \in 1..6 |-> events[k].call]
           = <<"fetch_papers", "fetch_repositories", "clean_and_deduplicate",
               "summarize_items", "generate_reports", "send_daily_digest">>

\* C24: run_daily_digest ends by returning True or False whatever its
\* collaborators raise: False when nothing was fetched, when a step raised,
\* or when the email was to be sent and the send reported failure (the
\* reports written by then), True otherwise, dry runs and runs with email
\* disabled included; main exits with 0 for True and 1 for False.
C24_ReturnsBoolean ==
    LET Steps == 1..Len(events)
        Fetch == {"fetch_papers", "fetch_repositories"}
        StepRaised ==
            \E k \in Steps : events[k].call \notin Fetch /\ events[k].out.exc # ""
        ReportsWritten ==
            \E k \in Steps : /\ events[k].call = "generate_reports"
                             /\ events[k].out.exc = ""
        SendFailed ==
            /\ ~dry_run /\ config.email /\ ReportsWritten
            /\ \/ ~recipient
               \/ \E k \in Steps : /\ events[k].call = "send_daily_digest"
                                   /\ events[k].out.exc = ""
                                   /\ events[k].out.v = FALSE
    IN  /\ StepRaised => runpc \in {"returned", "exited"}
        /\ runpc \notin {"returned", "exited"} => returned = "none"
        /\ runpc \in {"returned", "exited"}
              => /\ returned \in {"True", "False"}
                 /\ returned = "False"
                        <=> (raw_data = <<>> \/ StepRaised \/ SendFailed)
        /\ runpc = "exited" => exit_code = IF returned = "True" THEN 0 ELSE 1

\* the reports were written, the send reported failure, the run returned
\* False and main exited with 1
C24_Witness ==
    /\ runpc = "exited"
    /\ exit_code = 1
    /\ Len(events) >= 2
    /\ events[Len(events)].call = "send_daily_digest"
    /\ events[Len(events)].out.exc = ""
    /\ events[Len(events)].out.v = FALSE
    /\ events[Len(events) - 1].call = "generate_reports"

\* C25: fetch_all_data fetches exactly the enabled sources, each whether or
\* not the other failed, and returns what arXiv returned followed by what
\* GitHub returned, a failed source contributing nothing.
C25_SourcesIndependent ==
    LET Called(call) == \E k \in 1..Len(events) : events[k].call = call
        PartOf(call) ==
            IF Called(call)
            THEN events[CHOOSE k \in 1..Len(events) : events[k].call = call].out.v
            ELSE <<>>
    IN  runpc # "fetch"
            => /\ Called("fetch_papers") <=> config.arxiv
               /\ Called("fetch_repositories") <=> config.github
               /\ raw_data = PartOf("fetch_papers")
                                 \o PartOf("fetch_repositories")

\* arXiv raised, GitHub was fetched all the same, and the run went on with
\* the repositories
C25_Witness ==
    /\ Len(events) >= 2
    /\ events[1] = [call |-> "fetch_papers", out |-> Raise("Exception", <<>>)]
    /\ events[2].call = "fetch_repositories"
    /\ raw_data = <<Fetched.Repo_day>>
    /\ runpc = "clean"

----------------------------------------------------------------------------
(* further properties of calculate_comprehensive_score *)

\* C28: the two computed dimensions take only a few values and min() never
\* binds: arxiv popularity is one of 5, 6, 7, 8; author_influence is one of
\* 5, 5.5, 6, 7, 7.5, 8 for arxiv and one of 5, 6, 7, 8 for github, so neither
\* reaches 10; and for a bundle with values in [0,10] the final_score lies
\* in [1.5, 9.7] (150..970 hundredths).
C28_ComputedValuesAndFinalRange ==
    \A i \in 1..Len(calls) :
        Returned(i) =>
            LET s == ResultOf(i).individual_scores
            IN  /\ SourceIs(Src_arxiv) =>
                      /\ s["popularity"] \in
                             {Whole(5), Whole(6), Whole(7), Whole(8)}
                      /\ s["author_influence"] \in
                             {Whole(5), Whole(5) + HalfPoint, Whole(6),
                              Whole(7), Whole(7) + HalfPoint, Whole(8)}
                      /\ s["popularity"] < Whole(10)
                      /\ s["author_influence"] < Whole(10)
                /\ SourceIs(Src_github) =>
                      /\ s["author_influence"] \in
                             {Whole(5), Whole(6), Whole(7), Whole(8)}
                      /\ s["author_influence"] < Whole(10)
                /\ InRange(llm) => ResultOf(i).final_score \in 150..970

\* a paper of five authors, one of an organisation, naming a venue and in a
\* prestigious category was scored 8.0 and 8.0 with an in-range bundle
C28_Witness ==
    /\ Len(calls) >= 1 /\ Returned(1) /\ SourceIs(Src_arxiv) /\ InRange(llm)
    /\ item.authors.t = "list" /\ Len(item.authors.l) >= 5
    /\ ResultOf(1).individual_scores["popularity"] = Whole(8)
    /\ ResultOf(1).individual_scores["author_influence"] = Whole(8)
    /\ ResultOf(1).final_score \in 150..970

\* C29: score_breakdown and final_score are rounded independently, so they
\* need not add up, but for every item and every bundle with values in
\* [0,10] the sum of the six score_breakdown entries differs from final_score
\* by at most 0.03 (3 hundredths).
C29_BreakdownSumNearFinal ==
    \A i \in 1..Len(calls) :
        Returned(i) /\ InRange(llm) =>
            LET RECURSIVE Total(_, _)
                Total(f, keys) ==
                    IF keys = {} THEN 0
                    ELSE LET k == CHOOSE x \in keys : TRUE
                         IN  f[k] + Total(f, keys \ {k})
                r == ResultOf(i)
            IN  Abs(Total(r.score_breakdown, DOMAIN r.score_breakdown)
                      - r.final_score) <= 3

\* the repository's own example: 2.5 + 1.5 + 0.95 + 1.27 + 0.9 + 0.9 is
\* 8.02, one hundredth off the final_score of 8.03
C29_Witness ==
    /\ Len(calls) >= 1 /\ Returned(1) /\ InRange(llm)
    /\ llm = ExampleBundle
    /\ ResultOf(1).final_score = 803
    /\ ResultOf(1).score_breakdown["popularity"]
         + ResultOf(1).score_breakdown["technical_innovation"]
         + ResultOf(1).score_breakdown["application_value"]
         + ResultOf(1).score_breakdown["readability"]
         + ResultOf(1).score_breakdown["experimental_thoroughness"]
         + ResultOf(1).score_breakdown["author_influence"] = 802

\* C30: final_score is monotonic non-decreasing in every dimension: for a
\* fixed item, changing one subjective value of the bundle and keeping the
\* others moves final_score the same way or not at all, and for a fixed
\* bundle so does changing a github item's star count.
C30_FinalScoreMonotonic ==
    LET Final(it, b) ==
            calculate_comprehensive_score(
                it, b, top_conferences, influential_orgs).v.final_score
        Mine(i) == ResultOf(i).final_score
    IN  /\ \A k \in DOMAIN llm.d :
              \A v \in GridValues \cup {llm.d[k] - 1, llm.d[k] + 1} :
                  LET other == Final(item, Bundle([llm.d EXCEPT ![k] = v]))
                  IN  \A i \in 1..Len(calls) :
                          Returned(i) =>
                              /\ v >= llm.d[k] => other >= Mine(i)
                              /\ v <= llm.d[k] => other <= Mine(i)
        /\ SourceIs(Src_github) /\ item.stars.t = "int" =>
              \A n \in StarCounts :
                  LET other == Final(WithStars(item, n), llm)
                  IN  \A i \in 1..Len(calls) :
                          Returned(i) =>
                              /\ n >= item.stars.n => other >= Mine(i)
                              /\ n <= item.stars.n => other <= Mine(i)

\* the example bundle on a repository of 999 stars: one more star, or a
\* readability of 10.0 instead of 8.5, gives a strictly higher final_score
C30_Witness ==
    /\ Len(calls) >= 1 /\ Returned(1) /\ SourceIs(Src_github)
    /\ item.stars = PyInt(999) /\ llm = ExampleBundle
    /\ calculate_comprehensive_score(
           WithStars(item, 1000), llm, top_conferences,
           influential_orgs).v.final_score > ResultOf(1).final_score
    /\ calculate_comprehensive_score(
           item, Bundle([llm.d EXCEPT !["readability"] = Whole(10)]),
           top_conferences, influential_orgs).v.final_score
         > ResultOf(1).final_score

====
